---- MODULE Spec2Model ----
(***************************************************************************)
(* A model of the privilege-boundary core of thcore:                       *)
(*   - kernel-elf-parser: the initial user stack (user_stack.rs),          *)
(*   - handler_table: the lock-free HandlerTable (lib.rs),                 *)
(*   - axhal loongarch64_qemu_virt: IRQ registration and dispatch (irq.rs),*)
(*   - axhal arch/loongarch64: the trap dispatcher (trap.rs), the          *)
(*     user-space context, entering user space and the task switch         *)
(*     (context.rs),                                                       *)
(*   - kernel-elf-parser: the ELF parser (info.rs),                        *)
(*   - axhal loongarch64_qemu_virt: the boot sequences (boot.rs),          *)
(*   - flatten_objects: FlattenObjects (lib.rs),                           *)
(*   - cpumask: the iterator over a CpuMask (lib.rs).                      *)
(* Each component has its own specification; the variables of the other    *)
(* components stay parked at their initial value.                          *)
(***************************************************************************)
EXTENDS Integers, Sequences, FiniteSets, TLC

VARIABLES
    \* ---- kernel-elf-parser/src/user_stack.rs --------------------------
    args,            \* &[String]: the argument strings (byte sequences)
    envs,            \* &[String]: the environment strings
    auxv,            \* &mut [AuxvEntry]: the caller's slice, patched in place
    auxv_in,         \* the caller's slice as it was passed in (never written)
    stack_base,      \* app_stack_region's stack_base
    stack_size,      \* app_stack_region's stack_size
    sp,              \* UserStack.sp
    data,            \* the Vec<u8> that init_stack builds and returns
    random_str_pos,  \* init_stack's local
    envs_slice,      \* init_stack's local: the pointers push_str returned
    argv_slice,      \* init_stack's local
    upc,             \* the position of init_stack
    \* ---- handler_table/src/lib.rs --------------------------------------
    N,               \* const N: usize, the number of slots of the table
    handlers,        \* HandlerTable.handlers: [AtomicUsize; N]; the slots that
                     \* hold 0 (no handler) are left out of the function
    cpc,             \* per core: the position inside a HandlerTable method
    op,              \* per core: the method called and its arguments
    ret,             \* per core: the bool a register_handler / handle returned
    local_handler,   \* per core: the local `handler` of unregister_handler / handle
    invoked,         \* per core: the handlers the current call has invoked
    handlers0,       \* the table as it was when the cores started
    order,           \* the cores in the order of their atomic table accesses
    calls,           \* the number of calls the cores have made so far
    \* ---- axhal/src/platform/loongarch64_qemu_virt/irq.rs ---------------
    TIMER_HANDLER,   \* static TIMER_HANDLER: LazyInit<IrqHandler>
    ppc,             \* per core: the position inside register_handler / dispatch_irq
    pcall,           \* per core: the platform function called and its arguments
    pret,            \* per core: the bool the platform register_handler returned
    panicked,        \* the panic message once a core has panicked, "" before
    registered,      \* per cause: the handler whose registration returned true
    must,            \* per core: registered[cause] when dispatch_irq was called
    timer_pending,   \* per core: the pending bit of the timer interrupt
    reraised,        \* per core: the timer fired again while the handler ran
    \* ---- axhal/src/arch/loongarch64/trap.rs ----------------------------
    tf,              \* the TrapFrame the dispatcher is given (&mut TrapFrame)
    tf0,             \* the frame as it was at trap entry
    estat_cause,     \* estat.cause()
    estat_is,        \* estat.is(): the pending-interrupt mask
    badv_csr,        \* badv::read().raw(): the hardware fault-address register
    from_user,       \* the dispatcher's from_user argument
    tpc,             \* the position of the dispatcher
    syscalls,        \* this trap's calls of the syscall handler
    faults,          \* this trap's calls of the page-fault handler
    irqs,            \* this trap's calls of the IRQ handler
    ntraps,          \* the number of traps taken so far
    bp_eras,         \* the saved pc at the entry of each breakpoint trap of the
                     \* current run of consecutive breakpoint traps
    \* ---- axhal/src/arch/loongarch64/context.rs -------------------------
    uctx,            \* UspaceContext.0: the TrapFrame of the context
    uctx_how,        \* the constructor that made the context, "none" before
    uctx_op,         \* the last method called on the context and its argument
    uctx_written,    \* the values most recently written to ip, sp and retval
    uctx_nsets,      \* the number of setter calls so far
    \* ---- context.rs: UspaceContext::enter_uspace, on each core ---------
    cpu,             \* the core's registers: CRMD (plv, ie), PRMD (pplv, pie),
                     \* ERA, the KSAVE scratch CSRs, the pc and r0..r31
    epc,             \* the core's position: in the kernel, inside
                     \* enter_uspace, or in user mode
    earg,            \* the context and kstack_top of the core's latest
                     \* enter_uspace, and the kstack_top of the one before
    \* ---- context.rs: TaskContext::switch_to, on one core ---------------
    tls,             \* whether the build has the "tls" feature
    tctx,            \* the TaskContext of each task
    hw,              \* the core: ra, sp, the static registers, tp, the pc,
                     \* and the page-table-root register pgdl
    cur,             \* the task that is running
    spc,             \* the position inside switch_to, "run" outside it
    sarg,            \* the switch in progress: the two tasks, the core and
                     \* the contexts at the call, and what was done so far
    \* ---- kernel-elf-parser/src/info.rs --------------------------------
    elf_in,          \* the arguments of ELFParser::new: elf (the header and
                     \* the program headers), interp_base, bias, uspace_base
    parser,          \* the result of ELFParser::new: a parser or an error
    elf_out,         \* what the parser's methods returned
    \* ---- axhal/src/platform/loongarch64_qemu_virt/boot.rs -------------
    bcore,           \* each processor's position in its boot sequence and
                     \* its registers: CRMD, PRMD, EUEN, the mapping windows,
                     \* PGDH, PGDL, the TLB configuration, sp and a0
    bmem,            \* the boot page tables and SMP_BOOT_STACK_TOP
    \* ---- flatten_objects/src/lib.rs -----------------------------------
    fo,              \* the FlattenObjects: objects, id_bitmap, count
    fo_op,           \* the latest call: the method, its arguments, what it
                     \* returned, and the container before the call
    \* ---- cpumask/src/lib.rs -------------------------------------------
    mask,            \* the CpuMask: the set of its true bits
    iter,            \* the Iter over it: head and tail
    iter_log         \* the calls of next and next_back so far, with what
                     \* each returned

stackVars == <<args, envs, auxv, auxv_in, stack_base, stack_size, sp, data,
               random_str_pos, envs_slice, argv_slice, upc>>

\* What the model records about a run, beside the program's own state.
logVars == <<order, calls>>

tableVars == <<N, handlers, cpc, op, ret, local_handler, invoked, handlers0>>

\* The timer interrupt line of each core.
timerVars == <<timer_pending, reraised>>

platVars == <<TIMER_HANDLER, ppc, pcall, pret, panicked, registered, must, timerVars>>

trapVars == <<tf, tf0, estat_cause, estat_is, badv_csr, from_user, tpc, syscalls,
              faults, irqs, ntraps, bp_eras>>

uctxVars == <<uctx, uctx_how, uctx_op, uctx_written, uctx_nsets>>

\* arch/loongarch64: the trap dispatcher and the user context.
archVars == <<trapVars, uctxVars>>

enterVars == <<cpu, epc, earg>>

\* The components added after the trap dispatcher.
switchVars == <<tls, tctx, hw, cur, spc, sarg>>

elfVars == <<elf_in, parser, elf_out>>

bootVars == <<bcore, bmem>>

flatVars == <<fo, fo_op>>

maskVars == <<mask, iter, iter_log>>

\* The boot sequence and the two container libraries.
libVars == <<bootVars, flatVars, maskVars>>

restVars == <<enterVars, switchVars, elfVars, libVars>>

vars == <<stackVars, tableVars, logVars, platVars, archVars, restVars>>

(***************************************************************************)
(* Bounds of the model.                                                    *)
(***************************************************************************)
MaxArgs == 2
MaxEnvs == 2
MaxStrLen == 2
NCores == 2
MaxCalls == 4
TableN == 2

(***************************************************************************)
(* auxv.rs: AuxvType discriminants and AuxvEntry.                          *)
(***************************************************************************)
AT_NULL == 0
AT_PAGESZ == 6
AT_RANDOM == 25
AT_EXECFN == 31

AuxvEntry(t, v) == [auxv_type |-> t, auxv_val |-> v]

(***************************************************************************)
(* usize::to_le_bytes: the 8 bytes of a 64-bit word, least significant     *)
(* first.                                                                  *)
(***************************************************************************)
RECURSIVE Shr8(_, _)
Shr8(v, k) == IF k = 0 THEN v ELSE Shr8(v \div 256, k - 1)

to_le_bytes(val) == [k \in 1..8 |-> Shr8(val, k - 1) % 256]

RECURSIVE Flatten(_)
Flatten(ss) == IF ss = <<>> THEN <<>> ELSE Head(ss) \o Flatten(Tail(ss))

\* UserStack::push: the stack grows down, the bytes go in front of the buffer.
push(s, d, src) == [sp |-> s - Len(src), data |-> src \o d]

\* The mutant of push_usize_slice: the words are pushed in slice order, so
\* they land in memory reversed.
push_usize_slice_norev(s, d, src) ==
    push(s, d, Flatten([i \in 1..Len(src) |-> to_le_bytes(src[Len(src) + 1 - i])]))

\* UserStack::push_usize_slice: the words are pushed last to first, each as
\* its 8 little-endian bytes, so that src[0] ends at the lowest address.
push_usize_slice(s, d, src) ==
    push(s, d, Flatten([i \in 1..Len(src) |-> to_le_bytes(src[i])]))

\* The mutant of push_str: the string's bytes, then the NUL byte, so that
\* the terminator lands in front of the string.
push_str_nul_first(s, d, str) == push(s, d, <<0>> \o str)

\* UserStack::push_str: a NUL byte, then the string's bytes; returns the new sp.
push_str(s, d, str) == push(s, d, str \o <<0>>)

\* The 16-byte "random" seed "0123456789abcdef".
RandomSeed == <<48, 49, 50, 51, 52, 53, 54, 55, 56, 57, 97, 98, 99, 100, 101, 102>>

Zeros(n) == [i \in 1..n |-> 0]

\* The auxv slice reinterpreted as a slice of usize: type, value, type, ...
AuxvWords(av) ==
    Flatten([i \in 1..Len(av) |-> <<av[i].auxv_type, av[i].auxv_val>>])

\* The mutant of PatchAuxv: EXECFN gets the address of the seed.
PatchAuxvSeed(av, rpos, argv) ==
    [i \in 1..Len(av) |->
        IF av[i].auxv_type = AT_RANDOM THEN AuxvEntry(AT_RANDOM, rpos)
        ELSE IF av[i].auxv_type = AT_EXECFN THEN AuxvEntry(AT_EXECFN, rpos)
        ELSE av[i]]

\* The back-patching loop of init_stack.
PatchAuxv(av, rpos, argv) ==
    [i \in 1..Len(av) |->
        IF av[i].auxv_type = AT_RANDOM THEN AuxvEntry(AT_RANDOM, rpos)
        ELSE IF av[i].auxv_type = AT_EXECFN THEN AuxvEntry(AT_EXECFN, argv[1])
        ELSE av[i]]

HasType(av, t) == \E i \in 1..Len(av) : av[i].auxv_type = t

(***************************************************************************)
(* The inputs of app_stack_region.                                         *)
(***************************************************************************)
\* The argument string of n bytes: "", "a", "ab", ...
ArgStr(n) == [k \in 1..n |-> 96 + k]
\* The environment string of n bytes: "", "A", "AB", ...
EnvStr(n) == [k \in 1..n |-> 64 + k]

SeqsUpTo(S, n) == UNION {[1..k -> S] : k \in 0..n}

ArgLists == SeqsUpTo({ArgStr(n) : n \in 0..MaxStrLen}, MaxArgs)
EnvLists == SeqsUpTo({EnvStr(n) : n \in 0..MaxStrLen}, MaxEnvs)

AuxvInputs ==
    { <<AuxvEntry(AT_PAGESZ, 4096), AuxvEntry(AT_RANDOM, 0),
        AuxvEntry(AT_EXECFN, 0), AuxvEntry(AT_NULL, 0)>>,
      <<AuxvEntry(AT_RANDOM, 0), AuxvEntry(AT_PAGESZ, 4096),
        AuxvEntry(AT_NULL, 0)>>,
      <<AuxvEntry(AT_RANDOM, 7), AuxvEntry(AT_EXECFN, 9), AuxvEntry(AT_RANDOM, 0),
        AuxvEntry(AT_NULL, 0)>>,
      <<AuxvEntry(AT_NULL, 0)>> }

\* 0x3FE00000, and an unaligned base.
StackBases == {1071644672, 1071644672 + 5}
\* 0x20000
StackSizes == {131072}

StackInit ==
    /\ args \in ArgLists
    /\ envs \in EnvLists
    /\ auxv \in AuxvInputs
    /\ auxv_in = auxv
    /\ stack_base \in StackBases
    /\ stack_size \in StackSizes
    /\ sp = 0
    /\ data = <<>>
    /\ random_str_pos = 0
    /\ envs_slice = <<>>
    /\ argv_slice = <<>>
    /\ upc = "call"

(***************************************************************************)
(* app_stack_region and init_stack, one action per statement.              *)
(***************************************************************************)
\* app_stack_region: ustack_top = stack_base + stack_size; UserStack::new.
AppStackRegion ==
    /\ upc = "call"
    /\ sp' = stack_base + stack_size
    /\ data' = <<>>
    /\ upc' = "seed"
    /\ UNCHANGED <<args, envs, auxv, auxv_in, stack_base, stack_size, random_str_pos,
                   envs_slice, argv_slice>>
    /\ UNCHANGED <<tableVars, logVars, platVars, archVars, restVars>>

\* stack.push("0123456789abcdef"); random_str_pos = stack.get_sp()
PushSeed ==
    /\ upc = "seed"
    /\ LET r == push(sp, data, RandomSeed) IN
        /\ sp' = r.sp
        /\ data' = r.data
        /\ random_str_pos' = r.sp
    /\ upc' = "envs"
    /\ UNCHANGED <<args, envs, auxv, auxv_in, stack_base, stack_size, envs_slice, argv_slice>>
    /\ UNCHANGED <<tableVars, logVars, platVars, archVars, restVars>>

\* envs.iter().map(|env| stack.push_str(env)): one string per step.
PushEnv ==
    /\ upc = "envs"
    /\ Len(envs_slice) < Len(envs)
    /\ LET r == push_str(sp, data, envs[Len(envs_slice) + 1]) IN
        /\ sp' = r.sp
        /\ data' = r.data
        /\ envs_slice' = Append(envs_slice, r.sp)
    /\ UNCHANGED <<args, envs, auxv, auxv_in, stack_base, stack_size, random_str_pos,
                   argv_slice, upc>>
    /\ UNCHANGED <<tableVars, logVars, platVars, archVars, restVars>>

EnvsDone ==
    /\ upc = "envs"
    /\ Len(envs_slice) = Len(envs)
    /\ upc' = "args"
    /\ UNCHANGED <<args, envs, auxv, auxv_in, stack_base, stack_size, sp, data,
                   random_str_pos, envs_slice, argv_slice>>
    /\ UNCHANGED <<tableVars, logVars, platVars, archVars, restVars>>

\* args.iter().map(|arg| stack.push_str(arg)): one string per step.
PushArg ==
    /\ upc = "args"
    /\ Len(argv_slice) < Len(args)
    /\ LET r == push_str(sp, data, args[Len(argv_slice) + 1]) IN
        /\ sp' = r.sp
        /\ data' = r.data
        /\ argv_slice' = Append(argv_slice, r.sp)
    /\ UNCHANGED <<args, envs, auxv, auxv_in, stack_base, stack_size, random_str_pos,
                   envs_slice, upc>>
    /\ UNCHANGED <<tableVars, logVars, platVars, archVars, restVars>>

\* stack.push(padding_null): 8 zero bytes after the strings.
PushPadding ==
    /\ upc = "args"
    /\ Len(argv_slice) = Len(args)
    /\ LET r == push(sp, data, Zeros(8)) IN
        /\ sp' = r.sp
        /\ data' = r.data
    /\ upc' = "align"
    /\ UNCHANGED <<args, envs, auxv, auxv_in, stack_base, stack_size, random_str_pos,
                   envs_slice, argv_slice>>
    /\ UNCHANGED <<tableVars, logVars, platVars, archVars, restVars>>

\* The mutant of PushAlign: the padding rounds the byte count up, 16 - sp % 16.
PushAlignUp ==
    /\ upc = "align"
    /\ LET r == push(sp, data, Zeros(16 - (sp % 16))) IN
        /\ sp' = r.sp
        /\ data' = r.data
        /\ upc' = IF r.sp % 16 = 0 THEN "patch" ELSE "panic_assert"
    /\ UNCHANGED <<args, envs, auxv, auxv_in, stack_base, stack_size, random_str_pos,
                   envs_slice, argv_slice>>
    /\ UNCHANGED <<tableVars, logVars, platVars, archVars, restVars>>

\* stack.push("\0".repeat(sp % 16)); assert!(sp % 16 == 0)
PushAlign ==
    /\ upc = "align"
    /\ LET r == push(sp, data, Zeros(sp % 16)) IN
        /\ sp' = r.sp
        /\ data' = r.data
        /\ upc' = IF r.sp % 16 = 0 THEN "patch" ELSE "panic_assert"
    /\ UNCHANGED <<args, envs, auxv, auxv_in, stack_base, stack_size, random_str_pos,
                   envs_slice, argv_slice>>
    /\ UNCHANGED <<tableVars, logVars, platVars, archVars, restVars>>

\* The mutant of PatchAuxvEntries: with no argument the EXECFN entry is
\* left as it is.
PatchAuxvEntriesLenient ==
    /\ upc = "patch"
    /\ upc' = "auxv"
    /\ auxv' = PatchAuxv(auxv, random_str_pos, IF argv_slice = <<>> THEN <<0>> ELSE argv_slice)
    /\ UNCHANGED <<args, envs, auxv_in, stack_base, stack_size, sp, data, random_str_pos,
                   envs_slice, argv_slice>>
    /\ UNCHANGED <<tableVars, logVars, platVars, archVars, restVars>>

\* for auxv_entry in auxv.iter_mut(): RANDOM and EXECFN are back-patched;
\* argv_slice[0] is out of range when there is an EXECFN entry and no argument.
PatchAuxvEntries ==
    /\ upc = "patch"
    /\ IF HasType(auxv, AT_EXECFN) /\ argv_slice = <<>>
       THEN /\ upc' = "panic_index"
            /\ auxv' = auxv
       ELSE /\ upc' = "auxv"
            /\ auxv' = PatchAuxv(auxv, random_str_pos, argv_slice)
    /\ UNCHANGED <<args, envs, auxv_in, stack_base, stack_size, sp, data, random_str_pos,
                   envs_slice, argv_slice>>
    /\ UNCHANGED <<tableVars, logVars, platVars, archVars, restVars>>

\* stack.push_usize_slice(auxv as [usize])
PushAuxv ==
    /\ upc = "auxv"
    /\ LET r == push_usize_slice(sp, data, AuxvWords(auxv)) IN
        /\ sp' = r.sp
        /\ data' = r.data
    /\ upc' = "envp"
    /\ UNCHANGED <<args, envs, auxv, auxv_in, stack_base, stack_size, random_str_pos,
                   envs_slice, argv_slice>>
    /\ UNCHANGED <<tableVars, logVars, platVars, archVars, restVars>>

\* stack.push(padding_null); stack.push_usize_slice(envs_slice)
PushEnvp ==
    /\ upc = "envp"
    /\ LET n == push(sp, data, Zeros(8))
           r == push_usize_slice(n.sp, n.data, envs_slice) IN
        /\ sp' = r.sp
        /\ data' = r.data
    /\ upc' = "argv"
    /\ UNCHANGED <<args, envs, auxv, auxv_in, stack_base, stack_size, random_str_pos,
                   envs_slice, argv_slice>>
    /\ UNCHANGED <<tableVars, logVars, platVars, archVars, restVars>>

\* stack.push(padding_null); stack.push_usize_slice(argv_slice)
PushArgv ==
    /\ upc = "argv"
    /\ LET n == push(sp, data, Zeros(8))
           r == push_usize_slice(n.sp, n.data, argv_slice) IN
        /\ sp' = r.sp
        /\ data' = r.data
    /\ upc' = "argc"
    /\ UNCHANGED <<args, envs, auxv, auxv_in, stack_base, stack_size, random_str_pos,
                   envs_slice, argv_slice>>
    /\ UNCHANGED <<tableVars, logVars, platVars, archVars, restVars>>

\* stack.push_usize_slice(&[args.len()]); data is returned.
PushArgc ==
    /\ upc = "argc"
    /\ LET r == push_usize_slice(sp, data, <<Len(args)>>) IN
        /\ sp' = r.sp
        /\ data' = r.data
    /\ upc' = "done"
    /\ UNCHANGED <<args, envs, auxv, auxv_in, stack_base, stack_size, random_str_pos,
                   envs_slice, argv_slice>>
    /\ UNCHANGED <<tableVars, logVars, platVars, archVars, restVars>>

StackNext ==
    \/ AppStackRegion
    \/ PushSeed
    \/ PushEnv
    \/ EnvsDone
    \/ PushArg
    \/ PushPadding
    \/ PushAlign
    \/ PatchAuxvEntries
    \/ PushAuxv
    \/ PushEnvp
    \/ PushArgv
    \/ PushArgc

\* The state of the stack builder while another component is running.
StackParked ==
    /\ args = <<>>
    /\ envs = <<>>
    /\ auxv = <<>>
    /\ auxv_in = <<>>
    /\ stack_base = 0
    /\ stack_size = 0
    /\ sp = 0
    /\ data = <<>>
    /\ random_str_pos = 0
    /\ envs_slice = <<>>
    /\ argv_slice = <<>>
    /\ upc = "parked"

(***************************************************************************)
(* handler_table: HandlerTable<N>, a table of N atomic words.  Each method *)
(* makes one atomic access to one word; several cores run methods at once. *)
(***************************************************************************)
Cores == 1..NCores

\* A handler is a function pointer, a non-zero address; each core brings a
\* function of its own.
HandlerOf(c) == c
Handlers == {HandlerOf(c) : c \in Cores}

\* self.handlers[idx].load(): the word of slot idx of table t.
Slot(t, idx) == IF idx \in DOMAIN t THEN t[idx] ELSE 0

\* Table t with the word of slot idx set to val.
Store(t, idx, val) ==
    IF val = 0
    THEN [j \in DOMAIN t \ {idx} |-> t[j]]
    ELSE [j \in DOMAIN t \cup {idx} |-> IF j = idx THEN val ELSE t[j]]

\* The indices the callers pass: the first slot, the last slot, and the
\* first index that is out of range.
IdxInputs == {0, N - 1, N}

\* `empty` records whether the slot was empty when the method was entered.
NoOp == [name |-> "none", idx |-> 0, handler |-> 0, empty |-> FALSE]

\* The mutant of compare_exchange: the result is right, but the new value is
\* stored whatever the word holds.
compare_exchange_overwrite(word, current, new) == [ok |-> word = current, val |-> new]

\* The mutant of compare_exchange: a plain store, whatever the word holds.
compare_exchange_store(word, current, new) == [ok |-> TRUE, val |-> new]

\* AtomicUsize::compare_exchange(current, new) on a word: the word is
\* replaced only when it holds `current`.
compare_exchange(word, current, new) ==
    [ok |-> word = current, val |-> IF word = current THEN new ELSE word]

\* The mutant of swap: the word is read and left as it is.
swap_load(word, new) == [old |-> word, val |-> word]

\* AtomicUsize::swap(new) on a word: returns the old value.
swap(word, new) == [old |-> word, val |-> new]

\* HandlerTable::new: all entries empty.
HandlerTableNew == <<>>

TableInit(n) ==
    /\ N = n
    /\ handlers = HandlerTableNew
    /\ handlers0 = handlers
    /\ cpc = [c \in Cores |-> "idle"]
    /\ op = [c \in Cores |-> NoOp]
    /\ ret = [c \in Cores |-> FALSE]
    /\ local_handler = [c \in Cores |-> 0]
    /\ invoked = [c \in Cores |-> <<>>]
    /\ order = <<>>
    /\ calls = 0

\* A core enters a method of the table.
Enter(c, name, idx, h) ==
    /\ op' = [op EXCEPT ![c] = [name |-> name, idx |-> idx, handler |-> h,
                                empty |-> idx < N /\ Slot(handlers, idx) = 0]]
    /\ cpc' = [cpc EXCEPT ![c] = name]
    /\ ret' = [ret EXCEPT ![c] = FALSE]
    /\ local_handler' = [local_handler EXCEPT ![c] = 0]
    /\ invoked' = [invoked EXCEPT ![c] = <<>>]
    /\ UNCHANGED <<N, handlers, handlers0>>

CallRegister(c) ==
    \E idx \in IdxInputs : Enter(c, "register_handler", idx, HandlerOf(c))

CallUnregister(c) ==
    \E idx \in IdxInputs : Enter(c, "unregister_handler", idx, 0)

CallHandle(c) ==
    \E idx \in IdxInputs : Enter(c, "handle", idx, 0)

\* HandlerTable::register_handler: false when idx >= N, else the result of
\* compare_exchange(0, handler).
RegisterHandler(c) ==
    /\ cpc[c] = "register_handler"
    /\ LET idx == op[c].idx IN
        IF idx >= N
        THEN /\ ret' = [ret EXCEPT ![c] = FALSE]
             /\ handlers' = handlers
        ELSE LET r == compare_exchange(Slot(handlers, idx), 0, op[c].handler) IN
             /\ handlers' = Store(handlers, idx, r.val)
             /\ ret' = [ret EXCEPT ![c] = r.ok]
    /\ cpc' = [cpc EXCEPT ![c] = "idle"]
    /\ UNCHANGED <<N, op, local_handler, invoked, handlers0>>

\* HandlerTable::unregister_handler: None when idx >= N, else swap(0) and
\* Some(handler) when the old word is not 0.  local_handler = 0 stands for None.
UnregisterHandler(c) ==
    /\ cpc[c] = "unregister_handler"
    /\ LET idx == op[c].idx IN
        IF idx >= N
        THEN /\ local_handler' = [local_handler EXCEPT ![c] = 0]
             /\ handlers' = handlers
        ELSE LET r == swap(Slot(handlers, idx), 0) IN
             /\ handlers' = Store(handlers, idx, r.val)
             /\ local_handler' = [local_handler EXCEPT ![c] = r.old]
    /\ cpc' = [cpc EXCEPT ![c] = "idle"]
    /\ UNCHANGED <<N, op, ret, invoked, handlers0>>

\* The mutant of HandleSlot: the word of the next slot is read.
HandleSlotNext(idx) == (idx + 1) % N

\* HandlerTable::handle reads self.handlers[idx].
HandleSlot(idx) == idx

\* HandlerTable::handle, the load: false when idx >= N or the word is 0.
HandleLoad(c) ==
    /\ cpc[c] = "handle"
    /\ LET idx == op[c].idx IN
        IF idx >= N
        THEN /\ local_handler' = local_handler
             /\ cpc' = [cpc EXCEPT ![c] = "idle"]
        ELSE LET h == Slot(handlers, HandleSlot(idx)) IN
             /\ local_handler' = [local_handler EXCEPT ![c] = h]
             /\ cpc' = [cpc EXCEPT ![c] = IF h # 0 THEN "invoke" ELSE "idle"]
    /\ ret' = [ret EXCEPT ![c] = FALSE]
    /\ UNCHANGED <<N, handlers, op, invoked, handlers0>>

\* The mutant of HandleInvoke: the handler is called and taken out of its slot.
HandleInvokeTake(c) ==
    /\ cpc[c] = "invoke"
    /\ invoked' = [invoked EXCEPT ![c] = Append(invoked[c], local_handler[c])]
    /\ ret' = [ret EXCEPT ![c] = TRUE]
    /\ cpc' = [cpc EXCEPT ![c] = "idle"]
    /\ handlers' = Store(handlers, op[c].idx, 0)
    /\ UNCHANGED <<N, op, local_handler, handlers0>>

\* HandlerTable::handle, the call: handler(); true
HandleInvoke(c) ==
    /\ cpc[c] = "invoke"
    /\ invoked' = [invoked EXCEPT ![c] = Append(invoked[c], local_handler[c])]
    /\ ret' = [ret EXCEPT ![c] = TRUE]
    /\ cpc' = [cpc EXCEPT ![c] = "idle"]
    /\ UNCHANGED <<N, handlers, op, local_handler, handlers0>>

(***************************************************************************)
(* arch/loongarch64/context.rs: TrapFrame, 32 general registers and four   *)
(* status fields.                                                          *)
(***************************************************************************)
Regs == 0..31

\* TrapFrame::default(): every field zero.
TrapFrameDefault ==
    [regs |-> [i \in Regs |-> 0], prmd |-> 0, era |-> 0, badv |-> 0, crmd |-> 0]

(***************************************************************************)
(* arch/loongarch64/trap.rs: loongarch64_trap_handler(tf, from_user).      *)
(* The syscall, page-fault and IRQ handlers are external: the model records*)
(* each call with its arguments and lets the handler return any result.    *)
(***************************************************************************)
MaxTraps == 3

\* The causes with an arm of their own in the dispatcher's match.
PageFaultCauses == {"LoadPageFault", "FetchPageFault", "StorePageFault"}
HandledCauses == {"Syscall", "Breakpoint", "Interrupt"} \cup PageFaultCauses

\* Some of the causes that fall to the `_` arm.
OtherCauses == {"PageModifyFault", "PageNonExecutableFault", "AddressNotAligned",
                "InstructionNotExist", "Unknown"}

Causes == HandledCauses \cup OtherCauses

\* The frames a trap arrives with: every register holds a value of its own,
\* register 11 the syscall number.
SyscallNums == {64, 93}
EraInputs == {4096}
FrameInputs ==
    {[regs |-> [i \in Regs |-> IF i = 11 THEN n ELSE 100 + i],
      prmd |-> 7, era |-> e, badv |-> 48, crmd |-> 0] :
        n \in SyscallNums, e \in EraInputs}

\* What the syscall handler returns, as the 64-bit word that `as usize` keeps
\* (-1 in a record of a call stands for "not returned yet").
SyscallResults == {0, 38}

\* The fault addresses in the hardware register.
BadvInputs == {8192, 12288}

\* The pending-interrupt masks (13 lines): one line, several lines, the
\* timer line with and without lower ones.
IsInputs == {1, 4, 6, 2048, 2052, 6144}

\* usize::trailing_zeros, the index of the lowest set bit; 64 for 0.
RECURSIVE trailing_zeros(_)
trailing_zeros(m) ==
    IF m = 0 THEN 64
    ELSE IF m % 2 = 1 THEN 0
    ELSE 1 + trailing_zeros(m \div 2)

\* The index of the highest set bit.
RECURSIVE highest_set_bit(_)
highest_set_bit(m) == IF m <= 1 THEN 0 ELSE 1 + highest_set_bit(m \div 2)

\* The mutant of IrqNumOf: the highest pending line is routed.
IrqNumOfHighest(is) == highest_set_bit(is)

\* let irq_num: usize = estat.is().trailing_zeros() as usize;
IrqNumOf(is) == trailing_zeros(is)

\* The access flags the match arms pass to handle_page_fault.
PageFaultFlags(cause) ==
    IF cause \in {"LoadPageFault", "FetchPageFault"} THEN {"READ"} ELSE {"WRITE"}

\* handle_page_fault: if is_user { access_flags |= MappingFlags::USER; }
AddUserFlag(access_flags, is_user) ==
    IF is_user THEN access_flags \cup {"USER"} ELSE access_flags

\* The mutant of FaultVaddr: the address saved in the frame is used.
FaultVaddrFrame(f, csr) == f.badv

\* handle_page_fault: let vaddr = va!(badv::read().raw());
FaultVaddr(f, csr) == csr

\* The mutant of handle_breakpoint: the saved pc stays on the breakpoint.
handle_breakpoint_stay(era) == era

\* handle_breakpoint: *era += 4;
handle_breakpoint(era) == era + 4

\* The mutant of SyscallReturn: the saved pc is not advanced.
SyscallReturnNoAdvance(f, r) == [f EXCEPT !.regs[4] = r]

\* tf.regs[4] = <the handler's result> as usize; tf.era += 4;
SyscallReturn(f, r) == [f EXCEPT !.regs[4] = r, !.era = f.era + 4]

\* crate::trap::handle_syscall(tf, syscall_num): the registered syscall
\* handler is called once with both arguments.
handle_syscall(log, call) == Append(log, call)

\* handle_trap!(TRAP, args): the handler registered for TRAP is called once
\* with the arguments, and its result is the macro's value.
handle_trap(log, call) == Append(log, call)

TrapInit ==
    /\ tf \in FrameInputs
    /\ tf0 = tf
    /\ estat_cause = "none"
    /\ estat_is = 0
    /\ badv_csr = 0
    /\ from_user = FALSE
    /\ tpc = "user"
    /\ syscalls = <<>>
    /\ faults = <<>>
    /\ irqs = <<>>
    /\ ntraps = 0
    /\ bp_eras = <<>>

\* The state of the dispatcher while another component is running.
TrapParked ==
    /\ tf = TrapFrameDefault
    /\ tf0 = tf
    /\ estat_cause = "none"
    /\ estat_is = 0
    /\ badv_csr = 0
    /\ from_user = FALSE
    /\ tpc = "parked"
    /\ syscalls = <<>>
    /\ faults = <<>>
    /\ irqs = <<>>
    /\ ntraps = 0
    /\ bp_eras = <<>>

\* A trap is taken: the entry stub has saved the frame and calls
\* loongarch64_trap_handler(tf, from_user); the handler reads estat.  The
\* frame is the one the last trap returned to.
TrapEntry ==
    /\ tpc \in {"user", "returned"}
    /\ ntraps < MaxTraps
    /\ ntraps' = ntraps + 1
    /\ \E cause \in Causes, u \in BOOLEAN :
        /\ estat_cause' = cause
        /\ from_user' = u
        /\ estat_is' \in (IF cause = "Interrupt" THEN IsInputs ELSE {0})
        /\ badv_csr' \in (IF cause \in PageFaultCauses THEN BadvInputs ELSE {0})
    /\ tf0' = tf
    /\ tpc' = "match"
    /\ syscalls' = <<>>
    /\ faults' = <<>>
    /\ irqs' = <<>>
    /\ UNCHANGED <<tf, bp_eras>>
    /\ UNCHANGED <<stackVars, tableVars, logVars, platVars, uctxVars, restVars>>

\* Exception::Syscall: crate::trap::handle_syscall(tf, tf.regs[11]) is called.
TrapSyscall ==
    /\ tpc = "match"
    /\ estat_cause = "Syscall"
    /\ syscalls' = handle_syscall(syscalls, [tf |-> tf, syscall_num |-> tf.regs[11],
                                             result |-> -1])
    /\ tpc' = "handle_syscall"
    /\ bp_eras' = <<>>
    /\ UNCHANGED <<tf, tf0, estat_cause, estat_is, badv_csr, from_user, faults, irqs, ntraps>>
    /\ UNCHANGED <<stackVars, tableVars, logVars, platVars, uctxVars, restVars>>

\* The syscall handler returns; tf.regs[4] = result; tf.era += 4.
TrapSyscallRet ==
    /\ tpc = "handle_syscall"
    /\ \E r \in SyscallResults :
        /\ tf' = SyscallReturn(tf, r)
        /\ syscalls' = [syscalls EXCEPT ![Len(syscalls)].result = r]
    /\ tpc' = "returned"
    /\ UNCHANGED <<tf0, estat_cause, estat_is, badv_csr, from_user, faults, irqs,
                   ntraps, bp_eras>>
    /\ UNCHANGED <<stackVars, tableVars, logVars, platVars, uctxVars, restVars>>

\* Load/Fetch/Store page fault: handle_page_fault(tf, flags, from_user) up to
\* its call of the page-fault handler.
TrapPageFault ==
    /\ tpc = "match"
    /\ estat_cause \in PageFaultCauses
    /\ LET access_flags == PageFaultFlags(estat_cause)
           is_user == from_user
       IN  faults' = handle_trap(faults,
                                 [vaddr |-> FaultVaddr(tf, badv_csr),
                                  passed |-> access_flags,
                                  access_flags |-> AddUserFlag(access_flags, is_user),
                                  is_user |-> is_user,
                                  handled |-> "pending"])
    /\ tpc' = "handle_page_fault"
    /\ bp_eras' = <<>>
    /\ UNCHANGED <<tf, tf0, estat_cause, estat_is, badv_csr, from_user, syscalls, irqs, ntraps>>
    /\ UNCHANGED <<stackVars, tableVars, logVars, platVars, uctxVars, restVars>>

\* The page-fault handler returns: handle_page_fault returns when the fault
\* is resolved and panics when it is not.
TrapPageFaultRet ==
    /\ tpc = "handle_page_fault"
    /\ \E resolved \in BOOLEAN :
        /\ faults' = [faults EXCEPT ![Len(faults)].handled =
                                      IF resolved THEN "resolved" ELSE "unresolved"]
        /\ tpc' = IF resolved THEN "returned" ELSE "panic_page_fault"
    /\ UNCHANGED <<tf, tf0, estat_cause, estat_is, badv_csr, from_user, syscalls, irqs,
                   ntraps, bp_eras>>
    /\ UNCHANGED <<stackVars, tableVars, logVars, platVars, uctxVars, restVars>>

\* Exception::Breakpoint => handle_breakpoint(&mut tf.era)
TrapBreakpoint ==
    /\ tpc = "match"
    /\ estat_cause = "Breakpoint"
    /\ tf' = [tf EXCEPT !.era = handle_breakpoint(tf.era)]
    /\ bp_eras' = Append(bp_eras, tf.era)
    /\ tpc' = "returned"
    /\ UNCHANGED <<tf0, estat_cause, estat_is, badv_csr, from_user, syscalls, faults, irqs,
                   ntraps>>
    /\ UNCHANGED <<stackVars, tableVars, logVars, platVars, uctxVars, restVars>>

\* Trap::Interrupt(_): handle_trap!(IRQ, irq_num), whose result is dropped.
TrapInterrupt ==
    /\ tpc = "match"
    /\ estat_cause = "Interrupt"
    /\ irqs' = handle_trap(irqs, IrqNumOf(estat_is))
    /\ tpc' = "returned"
    /\ bp_eras' = <<>>
    /\ UNCHANGED <<tf, tf0, estat_cause, estat_is, badv_csr, from_user, syscalls, faults, ntraps>>
    /\ UNCHANGED <<stackVars, tableVars, logVars, platVars, uctxVars, restVars>>

\* The mutant of TrapUnhandled: the unknown cause is skipped like a breakpoint.
TrapUnhandledSkip ==
    /\ tpc = "match"
    /\ estat_cause \notin HandledCauses
    /\ tf' = [tf EXCEPT !.era = tf.era + 4]
    /\ tpc' = "returned"
    /\ bp_eras' = <<>>
    /\ UNCHANGED <<tf0, estat_cause, estat_is, badv_csr, from_user, syscalls, faults, irqs,
                   ntraps>>
    /\ UNCHANGED <<stackVars, tableVars, logVars, platVars, uctxVars, restVars>>

\* _ => panic!("Unhandled trap ...")
TrapUnhandled ==
    /\ tpc = "match"
    /\ estat_cause \notin HandledCauses
    /\ tpc' = "panic_unhandled"
    /\ bp_eras' = <<>>
    /\ UNCHANGED <<tf, tf0, estat_cause, estat_is, badv_csr, from_user, syscalls, faults, irqs,
                   ntraps>>
    /\ UNCHANGED <<stackVars, tableVars, logVars, platVars, uctxVars, restVars>>

TrapNext ==
    \/ TrapEntry
    \/ TrapSyscall
    \/ TrapSyscallRet
    \/ TrapPageFault
    \/ TrapPageFaultRet
    \/ TrapBreakpoint
    \/ TrapInterrupt
    \/ TrapUnhandled

(***************************************************************************)
(* arch/loongarch64/context.rs: UspaceContext(TrapFrame).                  *)
(***************************************************************************)
MaxSets == 3

PPLV_UMODE == 3
PIE == 4

\* The values the callers pass for a pc, a stack pointer or a return value.
WordInputs == {0, 16, 32}

\* The frames UspaceContext::from is given: one saved from user mode, one
\* saved from kernel mode.
FromInputs ==
    {[regs |-> [i \in Regs |-> IF i \in {3, 4} THEN 16 ELSE 0],
      prmd |-> p, era |-> 32, badv |-> 0, crmd |-> 0] : p \in {PPLV_UMODE + PIE, 0}}

NoMethod == [name |-> "none", val |-> 0]

UctxInit ==
    /\ uctx = TrapFrameDefault
    /\ uctx_how = "none"
    /\ uctx_op = NoMethod
    /\ uctx_written = [ip |-> 0, sp |-> 0, retval |-> 0]
    /\ uctx_nsets = 0

\* The state of the user context while another component is running.
UctxParked ==
    /\ uctx = TrapFrameDefault
    /\ uctx_how = "parked"
    /\ uctx_op = NoMethod
    /\ uctx_written = [ip |-> 0, sp |-> 0, retval |-> 0]
    /\ uctx_nsets = 0

\* UspaceContext::get_ip
get_ip(u) == u.era

\* UspaceContext::get_sp
get_sp(u) == u.regs[3]

\* The mutant of set_sp: the stack pointer lands in register 4.
set_sp_r4(u, sp_val) == [u EXCEPT !.regs[4] = sp_val]

\* UspaceContext::set_ip
set_ip(u, pc) == [u EXCEPT !.era = pc]

\* UspaceContext::set_sp
set_sp(u, sp_val) == [u EXCEPT !.regs[3] = sp_val]

\* UspaceContext::set_retval
set_retval(u, a0) == [u EXCEPT !.regs[4] = a0]

\* UspaceContext::new(entry, ustack_top, arg0)
UctxNew ==
    /\ uctx_how = "none"
    /\ \E entry \in WordInputs, ustack_top \in WordInputs, arg0 \in WordInputs :
        /\ uctx' = [TrapFrameDefault EXCEPT !.regs[3] = ustack_top,
                                            !.era = entry,
                                            !.prmd = PPLV_UMODE + PIE,
                                            !.regs[4] = arg0]
        /\ uctx_written' = [ip |-> entry, sp |-> ustack_top, retval |-> arg0]
    /\ uctx_how' = "new"
    /\ UNCHANGED <<uctx_op, uctx_nsets>>
    /\ UNCHANGED <<stackVars, tableVars, logVars, platVars, trapVars, restVars>>

\* UspaceContext::empty(): a zeroed frame.
UctxEmpty ==
    /\ uctx_how = "none"
    /\ uctx' = TrapFrameDefault
    /\ uctx_written' = [ip |-> 0, sp |-> 0, retval |-> 0]
    /\ uctx_how' = "empty"
    /\ UNCHANGED <<uctx_op, uctx_nsets>>
    /\ UNCHANGED <<stackVars, tableVars, logVars, platVars, trapVars, restVars>>

\* UspaceContext::from(trap_frame): a copy of the frame.
UctxFrom ==
    /\ uctx_how = "none"
    /\ \E trap_frame \in FromInputs :
        /\ uctx' = trap_frame
        /\ uctx_written' = [ip |-> trap_frame.era, sp |-> trap_frame.regs[3],
                            retval |-> trap_frame.regs[4]]
    /\ uctx_how' = "from"
    /\ UNCHANGED <<uctx_op, uctx_nsets>>
    /\ UNCHANGED <<stackVars, tableVars, logVars, platVars, trapVars, restVars>>

Constructed == uctx_how \in {"new", "empty", "from"}

UctxSetIp ==
    /\ Constructed
    /\ uctx_nsets < MaxSets
    /\ \E pc \in WordInputs :
        /\ uctx' = set_ip(uctx, pc)
        /\ uctx_op' = [name |-> "set_ip", val |-> pc]
        /\ uctx_written' = [uctx_written EXCEPT !.ip = pc]
    /\ uctx_nsets' = uctx_nsets + 1
    /\ UNCHANGED uctx_how
    /\ UNCHANGED <<stackVars, tableVars, logVars, platVars, trapVars, restVars>>

UctxSetSp ==
    /\ Constructed
    /\ uctx_nsets < MaxSets
    /\ \E sp_val \in WordInputs :
        /\ uctx' = set_sp(uctx, sp_val)
        /\ uctx_op' = [name |-> "set_sp", val |-> sp_val]
        /\ uctx_written' = [uctx_written EXCEPT !.sp = sp_val]
    /\ uctx_nsets' = uctx_nsets + 1
    /\ UNCHANGED uctx_how
    /\ UNCHANGED <<stackVars, tableVars, logVars, platVars, trapVars, restVars>>

UctxSetRetval ==
    /\ Constructed
    /\ uctx_nsets < MaxSets
    /\ \E a0 \in WordInputs :
        /\ uctx' = set_retval(uctx, a0)
        /\ uctx_op' = [name |-> "set_retval", val |-> a0]
        /\ uctx_written' = [uctx_written EXCEPT !.retval = a0]
    /\ uctx_nsets' = uctx_nsets + 1
    /\ UNCHANGED uctx_how
    /\ UNCHANGED <<stackVars, tableVars, logVars, platVars, trapVars, restVars>>

\* UspaceContext::enter_uspace: never returns; the context is used up.
UctxEnterUspace ==
    /\ Constructed
    /\ uctx_how' = "entered"
    /\ uctx_op' = [name |-> "enter_uspace", val |-> get_ip(uctx)]
    /\ UNCHANGED <<uctx, uctx_written, uctx_nsets>>
    /\ UNCHANGED <<stackVars, tableVars, logVars, platVars, trapVars, restVars>>

UctxNext ==
    \/ UctxNew
    \/ UctxEmpty
    \/ UctxFrom
    \/ UctxSetIp
    \/ UctxSetSp
    \/ UctxSetRetval
    \/ UctxEnterUspace

(***************************************************************************)
(* context.rs: UspaceContext::enter_uspace, statement by statement, on     *)
(* each core.  The CSRs are the core's own: CRMD (plv, ie), PRMD (pplv,    *)
(* pie), ERA and the scratch registers KSAVE_KSP, KSAVE_TP, KSAVE_R21.     *)
(* csrwr exchanges a general register with a CSR; ertn loads CRMD.plv and  *)
(* CRMD.ie from PRMD and the pc from ERA.                                  *)
(***************************************************************************)
\* The number of enter_uspace calls of a run, over all cores.
MaxEnters == 3

\* The contexts entered: one made by UspaceContext::new, one whose prmd
\* field is zero (UspaceContext::empty with ip and sp set afterwards).
EnterContexts ==
    {[regs |-> [i \in Regs |-> IF i = 0 THEN 0 ELSE b + i],
      prmd |-> p, era |-> b + 64, badv |-> 0, crmd |-> 0] :
        <<b, p>> \in {<<256, PPLV_UMODE + PIE>>, <<512, 0>>}}

\* The kernel stacks whose top the callers pass on a core: each task has a
\* stack of its own.
KstackTops(c) == {4096 * (2 * c), 4096 * (2 * c + 1)}

EnterInit ==
    /\ cpu = [c \in Cores |->
                [plv |-> 0, ie |-> TRUE, pplv |-> 0, pie |-> FALSE, era |-> 0,
                 ksave_ksp |-> 0, ksave_tp |-> 0, ksave_r21 |-> 0, pc |-> 0,
                 regs |-> [i \in Regs |-> 0]]]
    /\ epc = [c \in Cores |-> "kernel"]
    /\ earg = [c \in Cores |-> [ctx |-> TrapFrameDefault, kstack_top |-> 0, prev |-> 0]]

\* The mutant of disable_irqs: CRMD.ie is left as it is.
disable_irqs_keep(ie) == ie

\* arch::disable_irqs: crmd::set_ie(false)
disable_irqs(ie) == FALSE

\* A kernel task on core c calls enter_uspace(&ctx, kstack_top).
EU_Call(c) ==
    /\ epc[c] = "kernel"
    /\ calls < MaxEnters
    /\ calls' = calls + 1
    /\ \E ctx \in EnterContexts, k \in KstackTops(c) :
         earg' = [earg EXCEPT ![c] = [ctx |-> ctx, kstack_top |-> k,
                                      prev |-> earg[c].kstack_top]]
    /\ epc' = [epc EXCEPT ![c] = "disable_irqs"]
    /\ UNCHANGED <<cpu, order>>

\* super::disable_irqs()
EU_DisableIrqs(c) ==
    /\ epc[c] = "disable_irqs"
    /\ cpu' = [cpu EXCEPT ![c].ie = disable_irqs(@)]
    /\ epc' = [epc EXCEPT ![c] = "set_prmd"]
    /\ UNCHANGED <<earg, logVars>>

\* prmd::set_pplv(CpuMode::Ring3); prmd::set_pie(true)
EU_SetPrmd(c) ==
    /\ epc[c] = "set_prmd"
    /\ cpu' = [cpu EXCEPT ![c].pplv = 3, ![c].pie = TRUE]
    /\ epc' = [epc EXCEPT ![c] = "set_era"]
    /\ UNCHANGED <<earg, logVars>>

\* era::set_pc(self.get_ip())
EU_SetEra(c) ==
    /\ epc[c] = "set_era"
    /\ cpu' = [cpu EXCEPT ![c].era = get_ip(earg[c].ctx)]
    /\ epc' = [epc EXCEPT ![c] = "asm_save"]
    /\ UNCHANGED <<earg, logVars>>

\* The mutant of EU_AsmSave: the kernel stack top is not written to
\* KSAVE_KSP.
EU_AsmSaveStale(c) ==
    /\ epc[c] = "asm_save"
    /\ cpu' = [cpu EXCEPT ![c].ksave_tp = cpu[c].regs[2],
                          ![c].ksave_r21 = cpu[c].regs[21],
                          ![c].regs[2] = cpu[c].ksave_tp,
                          ![c].regs[21] = cpu[c].ksave_r21]
    /\ epc' = [epc EXCEPT ![c] = "asm_restore"]
    /\ UNCHANGED <<earg, logVars>>

\* move $sp, {tf}; csrwr $tp, KSAVE_TP; csrwr $r21, KSAVE_R21;
\* csrwr {kstack_top}, KSAVE_KSP.  The frame is read through $sp from here
\* on; the operand registers are reloaded by the next step.
EU_AsmSave(c) ==
    /\ epc[c] = "asm_save"
    /\ cpu' = [cpu EXCEPT ![c].ksave_tp = cpu[c].regs[2],
                          ![c].ksave_r21 = cpu[c].regs[21],
                          ![c].regs[2] = cpu[c].ksave_tp,
                          ![c].regs[21] = cpu[c].ksave_r21,
                          ![c].ksave_ksp = earg[c].kstack_top]
    /\ epc' = [epc EXCEPT ![c] = "asm_restore"]
    /\ UNCHANGED <<earg, logVars>>

\* ld.d $r1; ld.d $tp; ld.d $r4 .. ld.d $r31; ld.d $sp: r0 is the zero
\* register and is not loaded.
EU_AsmRestore(c) ==
    /\ epc[c] = "asm_restore"
    /\ cpu' = [cpu EXCEPT ![c].regs =
                 [i \in Regs |-> IF i = 0 THEN 0 ELSE earg[c].ctx.regs[i]]]
    /\ epc' = [epc EXCEPT ![c] = "ertn"]
    /\ UNCHANGED <<earg, logVars>>

\* ertn
EU_Ertn(c) ==
    /\ epc[c] = "ertn"
    /\ cpu' = [cpu EXCEPT ![c].plv = cpu[c].pplv, ![c].ie = cpu[c].pie,
                          ![c].pc = cpu[c].era]
    /\ epc' = [epc EXCEPT ![c] = "user"]
    /\ UNCHANGED <<earg, logVars>>

\* The next trap from user mode on core c: the hardware saves the mode and
\* the pc and enters the kernel with interrupts off.  User code cannot
\* write a CSR, so the scratch registers are as enter_uspace left them.
UserTrap(c) ==
    /\ epc[c] = "user"
    /\ cpu' = [cpu EXCEPT ![c].pplv = cpu[c].plv, ![c].pie = cpu[c].ie,
                          ![c].plv = 0, ![c].ie = FALSE, ![c].era = cpu[c].pc]
    /\ epc' = [epc EXCEPT ![c] = "kernel"]
    /\ UNCHANGED <<earg, logVars>>

EnterNext ==
    /\ \E c \in Cores :
         \/ EU_Call(c)
         \/ EU_DisableIrqs(c)
         \/ EU_SetPrmd(c)
         \/ EU_SetEra(c)
         \/ EU_AsmSave(c)
         \/ EU_AsmRestore(c)
         \/ EU_Ertn(c)
         \/ UserTrap(c)
    /\ UNCHANGED <<stackVars, tableVars, platVars, archVars, switchVars, elfVars, libVars>>

(***************************************************************************)
(* context.rs: TaskContext, switch_to and context_switch, on one core.     *)
(* The build has the "uspace" feature, so a TaskContext has a pgdl field;  *)
(* the "tls" feature is a parameter of the run.                            *)
(***************************************************************************)
NTasks == 3

Tasks == 1..NTasks

\* The page-table roots in use; tasks 1 and 2 are threads of one address
\* space.
PgdlInputs == {4096, 8192}

\* The registers of task t while it runs, at the k-th of the places it
\* calls switch_to from.
TaskRegs(t, k) ==
    [ra |-> 1000 * t + 100 * k + 50, sp |-> 1000 * t + 100 * k + 60,
     s |-> [i \in 0..9 |-> 1000 * t + 100 * k + i],
     tp |-> 1000 * t + 70]

\* TaskContext::new() followed by init(entry, kstack_top, tls_area) and
\* set_page_table_root: a task that has not run yet.
TaskContextInit(t) ==
    [ra |-> 1000 * t + 90, sp |-> 1000 * t + 80, s |-> [i \in 0..9 |-> 0],
     tp |-> 1000 * t + 70, pgdl |-> IF t <= 2 THEN 4096 ELSE 8192]

\* No switch_to is under way.  away[t] records the registers task t had
\* at its latest call of switch_to, <<>> while it has not called it.
NoSwitch ==
    [prev |-> 0, next |-> 0, hw0 |-> <<>>, tctx0 |-> <<>>, log |-> <<>>,
     away |-> [t \in Tasks |-> <<>>]]

SwitchInit ==
    /\ tls \in BOOLEAN
    /\ tctx = [t \in Tasks |-> TaskContextInit(t)]
    /\ cur = 1
    /\ hw = TaskRegs(1, 0) @@ [pc |-> 0, pgdl |-> 4096]
    /\ spc = "run"
    /\ sarg = NoSwitch

\* The state of the switch variables while another component is running.
SwitchParked ==
    /\ tls = FALSE
    /\ tctx = <<>>
    /\ cur = 0
    /\ hw = <<>>
    /\ spc = "parked"
    /\ sarg = NoSwitch

\* TaskContext::set_page_table_root
SW_SetPageTableRoot ==
    /\ spc = "run"
    /\ \E t \in Tasks, p \in PgdlInputs :
         /\ tctx[t].pgdl # p
         /\ tctx' = [tctx EXCEPT ![t].pgdl = p]
    /\ sarg' = [NoSwitch EXCEPT !.away = sarg.away]
    /\ UNCHANGED <<tls, hw, cur, spc>>

\* The running task, somewhere in its code, calls
\* switch_to(&mut its context, &next's context).
SW_Call ==
    /\ spc = "run"
    /\ \E n \in Tasks \ {cur}, k \in {0, 1} :
         LET h == [r \in DOMAIN hw |->
                     IF r \in {"pc", "pgdl"} THEN hw[r] ELSE TaskRegs(cur, k)[r]]
         IN  /\ hw' = h
             /\ sarg' = [prev |-> cur, next |-> n, hw0 |-> h, tctx0 |-> tctx,
                         log |-> <<>>, away |-> [sarg.away EXCEPT ![cur] = TaskRegs(cur, k)]]
    /\ spc' = "tls"
    /\ UNCHANGED <<tls, tctx, cur>>

\* #[cfg(feature = "tls")]: self.tp = read_thread_pointer();
\* write_thread_pointer(next_ctx.tp)
SW_Tls ==
    /\ spc = "tls"
    /\ IF tls
       THEN /\ tctx' = [tctx EXCEPT ![sarg.prev].tp = hw.tp]
            /\ hw' = [hw EXCEPT !.tp = tctx[sarg.next].tp]
       ELSE UNCHANGED <<tctx, hw>>
    /\ spc' = "pgdl"
    /\ UNCHANGED <<tls, cur, sarg>>

\* The mutant of SW_Pgdl: the next root is compared with the register, not
\* with the field of the current context.
SW_PgdlCompareRegister ==
    /\ spc = "pgdl"
    /\ IF hw.pgdl # tctx[sarg.next].pgdl
       THEN /\ hw' = [hw EXCEPT !.pgdl = tctx[sarg.next].pgdl]
            /\ sarg' = [sarg EXCEPT !.log = @ \o
                          <<[ev |-> "set_pgdl", val |-> tctx[sarg.next].pgdl],
                            [ev |-> "flush_tlb", val |-> 0]>>]
       ELSE UNCHANGED <<hw, sarg>>
    /\ spc' = "context_switch"
    /\ UNCHANGED <<tls, tctx, cur>>

\* #[cfg(feature = "uspace")]: if self.pgdl != next_ctx.pgdl
\* { write_page_table_root0(pa!(next_ctx.pgdl)) }, which is
\* pgdl::set_base(root); flush_tlb(None).
SW_Pgdl ==
    /\ spc = "pgdl"
    /\ IF tctx[sarg.prev].pgdl # tctx[sarg.next].pgdl
       THEN /\ hw' = [hw EXCEPT !.pgdl = tctx[sarg.next].pgdl]
            /\ sarg' = [sarg EXCEPT !.log = @ \o
                          <<[ev |-> "set_pgdl", val |-> tctx[sarg.next].pgdl],
                            [ev |-> "flush_tlb", val |-> 0]>>]
       ELSE UNCHANGED <<hw, sarg>>
    /\ spc' = "context_switch"
    /\ UNCHANGED <<tls, tctx, cur>>

\* The mutant of SW_ContextSwitch: the stack pointer is not stored.
SW_ContextSwitchNoSp ==
    /\ spc = "context_switch"
    /\ LET saved == [tctx EXCEPT ![sarg.prev].ra = hw.ra, ![sarg.prev].s = hw.s]
       IN  /\ tctx' = saved
           /\ hw' = [hw EXCEPT !.ra = saved[sarg.next].ra, !.s = saved[sarg.next].s,
                               !.sp = saved[sarg.next].sp, !.pc = saved[sarg.next].ra]
    /\ cur' = sarg.next
    /\ sarg' = [sarg EXCEPT !.log = Append(@, [ev |-> "context_switch", val |-> 0])]
    /\ spc' = "run"
    /\ UNCHANGED tls

\* The mutant of SW_ContextSwitch: the static registers are stored and
\* not loaded.
SW_ContextSwitchKeepS ==
    /\ spc = "context_switch"
    /\ LET saved == [tctx EXCEPT ![sarg.prev].ra = hw.ra, ![sarg.prev].sp = hw.sp,
                                 ![sarg.prev].s = hw.s]
       IN  /\ tctx' = saved
           /\ hw' = [hw EXCEPT !.ra = saved[sarg.next].ra,
                               !.sp = saved[sarg.next].sp, !.pc = saved[sarg.next].ra]
    /\ cur' = sarg.next
    /\ sarg' = [sarg EXCEPT !.log = Append(@, [ev |-> "context_switch", val |-> 0])]
    /\ spc' = "run"
    /\ UNCHANGED tls

\* context_switch(self, next_ctx): st.d of $ra, $sp, $s0..$s8, $fp to the
\* current context, ld.d of the same registers from the next one, ret.
SW_ContextSwitch ==
    /\ spc = "context_switch"
    /\ LET saved == [tctx EXCEPT ![sarg.prev].ra = hw.ra, ![sarg.prev].sp = hw.sp,
                                 ![sarg.prev].s = hw.s]
       IN  /\ tctx' = saved
           /\ hw' = [hw EXCEPT !.ra = saved[sarg.next].ra, !.s = saved[sarg.next].s,
                               !.sp = saved[sarg.next].sp, !.pc = saved[sarg.next].ra]
    /\ cur' = sarg.next
    /\ sarg' = [sarg EXCEPT !.log = Append(@, [ev |-> "context_switch", val |-> 0])]
    /\ spc' = "run"
    /\ UNCHANGED tls

SwitchNext ==
    /\ \/ SW_SetPageTableRoot
       \/ SW_Call
       \/ SW_Tls
       \/ SW_Pgdl
       \/ SW_ContextSwitch
    /\ UNCHANGED <<stackVars, tableVars, logVars, platVars, archVars, enterVars, elfVars,
                   libVars>>

(***************************************************************************)
(* kernel-elf-parser/src/info.rs: ELFParser.  An ElfFile is its header     *)
(* (magic, type, entry point, program-header offset) and its program       *)
(* headers in table order.  usize is scaled to 16 bits: wrapping_add wraps *)
(* at 2^16, and `as usize` of a negative isize adds 2^16.                  *)
(***************************************************************************)
MaxPh == 3

\* The program headers an image is made of: the interpreter path, a load
\* segment low in memory, one higher up, and the dynamic section.
PhInputs ==
    {[type |-> "Interp", virtual_addr |-> 512, offset |-> 512, file_size |-> 28,
      mem_size |-> 28, flags |-> {"R"}],
     [type |-> "Load", virtual_addr |-> 4096, offset |-> 0, file_size |-> 100,
      mem_size |-> 100, flags |-> {"R", "X"}],
     [type |-> "Load", virtual_addr |-> 16384, offset |-> 4096, file_size |-> 50,
      mem_size |-> 200, flags |-> {"R", "W"}],
     [type |-> "Dynamic", virtual_addr |-> 20480, offset |-> 8192, file_size |-> 16,
      mem_size |-> 16, flags |-> {"W"}]}

ElfInputs ==
    [magic : {<<127, 69, 76, 70>>, <<127, 69, 76, 71>>},
     type : {"Executable", "SharedObject", "Relocatable", "Core"},
     entry_point : {4100},
     ph_offset : {64},
     ph_entry_size : {56},
     phs : UNION {[1..n -> PhInputs] : n \in 0..MaxPh}]

BiasInputs == {[some |-> FALSE, val |-> 0], [some |-> TRUE, val |-> 4096],
               [some |-> TRUE, val |-> -4096]}

NoParser == [ok |-> FALSE, err |-> "not called"]

NoOutput == [called |-> FALSE]

ElfInit ==
    /\ elf_in \in [elf : ElfInputs, interp_base : {0, 8192}, bias : BiasInputs,
                   uspace_base : {0, 16384}]
    /\ parser = NoParser
    /\ elf_out = NoOutput

\* The state of the parser variables while another component is running.
ElfParked ==
    /\ elf_in = <<>>
    /\ parser = NoParser
    /\ elf_out = NoOutput

\* elf.program_iter().filter(|ph| ph.get_type() == Ok(t))
PhOfType(elf, t) == SelectSeq(elf.phs, LAMBDA ph : ph.type = t)

\* The mutant of elf_base_addr: a shared object that names an interpreter
\* has the interpreter's base, too.
elf_base_addr_interp(elf, interp_base) ==
    CASE elf.type = "Executable" -> [ok |-> TRUE, val |-> 0]
      [] elf.type = "SharedObject" ->
            IF Len(PhOfType(elf, "Interp")) \in {0, 1}
            THEN [ok |-> TRUE, val |-> interp_base]
            ELSE [ok |-> FALSE, err |-> "Multiple interpreters found"]
      [] OTHER -> [ok |-> FALSE, err |-> "Unsupported ELF type"]

\* The mutant of elf_base_addr: any other type is loaded like an
\* executable.
elf_base_addr_any_type(elf, interp_base) ==
    CASE elf.type = "SharedObject" ->
            CASE Len(PhOfType(elf, "Interp")) = 0 -> [ok |-> TRUE, val |-> interp_base]
              [] Len(PhOfType(elf, "Interp")) = 1 -> [ok |-> TRUE, val |-> 0]
              [] OTHER -> [ok |-> FALSE, err |-> "Multiple interpreters found"]
      [] OTHER -> [ok |-> TRUE, val |-> 0]

\* ELFParser::elf_base_addr
elf_base_addr(elf, interp_base) ==
    CASE elf.type = "Executable" -> [ok |-> TRUE, val |-> 0]
      [] elf.type = "SharedObject" ->
            CASE Len(PhOfType(elf, "Interp")) = 0 -> [ok |-> TRUE, val |-> interp_base]
              [] Len(PhOfType(elf, "Interp")) = 1 -> [ok |-> TRUE, val |-> 0]
              [] OTHER -> [ok |-> FALSE, err |-> "Multiple interpreters found"]
      [] OTHER -> [ok |-> FALSE, err |-> "Unsupported ELF type"]

\* base.wrapping_add(bias.unwrap_or(0) as usize)
wrapping_add_bias(base, bias) ==
    LET b == IF bias.some THEN bias.val ELSE 0
    IN  (base + ((b + 2^16) % 2^16)) % 2^16

\* The mutant of ELFParserNew: a load segment that starts at uspace_base is
\* rejected, too.
ELFParserNewStrict(elf, interp_base, bias, uspace_base) ==
    LET is_pie ==
            \/ elf.type = "SharedObject"
            \/ elf.type = "Executable" /\ PhOfType(elf, "Interp") # <<>>
        base == elf_base_addr(elf, interp_base)
    IN  IF elf.magic # <<127, 69, 76, 70>>
        THEN [ok |-> FALSE, err |-> "invalid elf!"]
        ELSE IF /\ ~is_pie
                /\ \E i \in DOMAIN elf.phs :
                     /\ elf.phs[i].type = "Load"
                     /\ elf.phs[i].virtual_addr <= uspace_base
        THEN [ok |-> FALSE, err |-> "Invalid ELF base address"]
        ELSE IF ~base.ok
        THEN base
        ELSE [ok |-> TRUE, elf |-> elf,
              base |-> IF is_pie THEN wrapping_add_bias(base.val, bias) ELSE base.val]

\* ELFParser::new
ELFParserNew(elf, interp_base, bias, uspace_base) ==
    LET is_pie ==
            \/ elf.type = "SharedObject"
            \/ elf.type = "Executable" /\ PhOfType(elf, "Interp") # <<>>
        base == elf_base_addr(elf, interp_base)
    IN  IF elf.magic # <<127, 69, 76, 70>>
        THEN [ok |-> FALSE, err |-> "invalid elf!"]
        ELSE IF /\ ~is_pie
                /\ \E i \in DOMAIN elf.phs :
                     /\ elf.phs[i].type = "Load"
                     /\ elf.phs[i].virtual_addr < uspace_base
        THEN [ok |-> FALSE, err |-> "Invalid ELF base address"]
        ELSE IF ~base.ok
        THEN base
        ELSE [ok |-> TRUE, elf |-> elf,
              base |-> IF is_pie THEN wrapping_add_bias(base.val, bias) ELSE base.val]

\* ELFParser::entry.  A `+` on usize wraps in a build without overflow
\* checks; Overflows tells when a build with them panics instead.
entry(p) == (p.elf.entry_point + p.base) % 2^16

\* ELFParser::phdr
phdr(p) == (p.elf.ph_offset + p.base) % 2^16

\* The flags of one segment.
MappingFlagsOf(ph) ==
    {"USER"} \cup (IF "R" \in ph.flags THEN {"READ"} ELSE {})
             \cup (IF "W" \in ph.flags THEN {"WRITE"} ELSE {})
             \cup (IF "X" \in ph.flags THEN {"EXECUTE"} ELSE {})

\* The mutant of ph_load: the segments are given without the USER flag.
ph_load_kernel(p) ==
    LET loads == PhOfType(p.elf, "Load")
    IN  [i \in DOMAIN loads |->
           [offset |-> loads[i].offset,
            vaddr |-> (loads[i].virtual_addr + p.base) % 2^16,
            memsz |-> loads[i].mem_size,
            filesz |-> loads[i].file_size,
            flags |-> MappingFlagsOf(loads[i]) \ {"USER"}]]

\* ELFParser::ph_load
ph_load(p) ==
    LET loads == PhOfType(p.elf, "Load")
    IN  [i \in DOMAIN loads |->
           [offset |-> loads[i].offset,
            vaddr |-> (loads[i].virtual_addr + p.base) % 2^16,
            memsz |-> loads[i].mem_size,
            filesz |-> loads[i].file_size,
            flags |-> MappingFlagsOf(loads[i])]]

\* The AuxvType discriminants auxv_vector uses beside the four above.
AT_PHDR == 3
AT_PHENT == 4
AT_PHNUM == 5
AT_BASE == 7
AT_FLAGS == 8
AT_ENTRY == 9
AT_UID == 11
AT_EUID == 12
AT_GID == 13
AT_EGID == 14
AT_PLATFORM == 15
AT_HWCAP == 16
AT_CLKTCK == 17

\* The mutant of auxv_vector: PHDR is the offset in the file, not the
\* address in memory.
auxv_vector_file_phdr(p, pagesz) ==
    <<AuxvEntry(AT_PHDR, p.elf.ph_offset),
      AuxvEntry(AT_PHENT, p.elf.ph_entry_size),
      AuxvEntry(AT_PHNUM, Len(p.elf.phs)),
      AuxvEntry(AT_PAGESZ, pagesz),
      AuxvEntry(AT_BASE, p.base),
      AuxvEntry(AT_FLAGS, 0),
      AuxvEntry(AT_ENTRY, entry(p)),
      AuxvEntry(AT_HWCAP, 0),
      AuxvEntry(AT_CLKTCK, 100),
      AuxvEntry(AT_PLATFORM, 0),
      AuxvEntry(AT_UID, 0),
      AuxvEntry(AT_EUID, 0),
      AuxvEntry(AT_GID, 0),
      AuxvEntry(AT_EGID, 0),
      AuxvEntry(AT_RANDOM, 0),
      AuxvEntry(AT_EXECFN, 0),
      AuxvEntry(AT_NULL, 0)>>

\* ELFParser::auxv_vector; phnum() is the header's count of program
\* headers, the length of the table program_iter walks.
auxv_vector(p, pagesz) ==
    <<AuxvEntry(AT_PHDR, phdr(p)),
      AuxvEntry(AT_PHENT, p.elf.ph_entry_size),
      AuxvEntry(AT_PHNUM, Len(p.elf.phs)),
      AuxvEntry(AT_PAGESZ, pagesz),
      AuxvEntry(AT_BASE, p.base),
      AuxvEntry(AT_FLAGS, 0),
      AuxvEntry(AT_ENTRY, entry(p)),
      AuxvEntry(AT_HWCAP, 0),
      AuxvEntry(AT_CLKTCK, 100),
      AuxvEntry(AT_PLATFORM, 0),
      AuxvEntry(AT_UID, 0),
      AuxvEntry(AT_EUID, 0),
      AuxvEntry(AT_GID, 0),
      AuxvEntry(AT_EGID, 0),
      AuxvEntry(AT_RANDOM, 0),
      AuxvEntry(AT_EXECFN, 0),
      AuxvEntry(AT_NULL, 0)>>

\* An addition of entry, phdr or ph_load exceeds usize.
Overflows(p) ==
    \/ p.elf.entry_point + p.base >= 2^16
    \/ p.elf.ph_offset + p.base >= 2^16
    \/ \E i \in DOMAIN p.elf.phs :
         p.elf.phs[i].type = "Load" /\ p.elf.phs[i].virtual_addr + p.base >= 2^16

\* The caller parses the image.
ElfNew ==
    /\ parser = NoParser
    /\ parser' = ELFParserNew(elf_in.elf, elf_in.interp_base, elf_in.bias,
                              elf_in.uspace_base)
    /\ UNCHANGED <<elf_in, elf_out>>

\* The caller reads base(), entry(), phdr(), ph_load() and
\* auxv_vector(pagesz) of the parser it got.
ElfRead ==
    /\ parser.ok
    /\ ~elf_out.called
    /\ \E panics \in (IF Overflows(parser) THEN BOOLEAN ELSE {FALSE}),
          pagesz \in {4096, 16384} :
         elf_out' = IF panics
                    THEN [called |-> TRUE, panicked |-> TRUE]
                    ELSE [called |-> TRUE, panicked |-> FALSE, base |-> parser.base,
                          entry |-> entry(parser), phdr |-> phdr(parser),
                          ph_load |-> ph_load(parser), pagesz |-> pagesz,
                          auxv |-> auxv_vector(parser, pagesz)]
    /\ UNCHANGED <<elf_in, parser>>

ElfNext ==
    /\ \/ ElfNew
       \/ ElfRead
    /\ UNCHANGED <<stackVars, tableVars, logVars, platVars, archVars, enterVars, switchVars,
                   libVars>>

(***************************************************************************)
(* platform/loongarch64_qemu_virt/boot.rs: _start on the primary processor *)
(* and _start_secondary on the others.  Processors are numbered by their   *)
(* CPUID register, the primary is 0.  Addresses are scaled down; a boot    *)
(* page-table entry is the 1 GiB block it maps and its flag bits.          *)
(***************************************************************************)
BootCpus == 0..(NCores - 1)

\* The symbols the boot code refers to, as linked (virtual addresses), and
\* the offset between virtual and physical addresses.
BootImage ==
    [boot_stack |-> 36864, boot_stack_size |-> 4096, boot_pt_l0 |-> 45056,
     boot_pt_l1 |-> 49152, handle_tlb_refill |-> 33024, rust_entry |-> 34048,
     rust_entry_secondary |-> 34560, phys_virt_offset |-> 32768]

virt_to_phys(va) == va - BootImage.phys_virt_offset

\* Huge Page Mapping Flags: V | D | HUGE | P | W
HUGE_FLAGS == 451

\* A CRMD value by its fields: PLV, IE, DA, PG, DATF, DATM.
CrmdOf(v) ==
    [plv |-> v % 4, ie |-> (v \div 4) % 2 = 1, da |-> (v \div 8) % 2 = 1,
     pg |-> (v \div 16) % 2 = 1, datf |-> (v \div 32) % 4, datm |-> (v \div 128) % 4]

\* CRMD after reset: PLV 0, IE 0, direct address translation.
CrmdReset == CrmdOf(8)

\* arch::init_tlb: 4 KiB pages in TLBIDX, STLBPS and TLBREHI, the
\* page-walk geometry in PWCL and PWCH, and the TLB refill entry.
init_tlb ==
    [ps |-> 12, pte_width |-> 8, ptbase |-> 12, ptwidth |-> 9, dir1_base |-> 21,
     dir1_width |-> 9, dir2_base |-> 30, dir2_width |-> 9, dir3_base |-> 39,
     dir3_width |-> 9, tlbrentry |-> virt_to_phys(BootImage.handle_tlb_refill)]

\* The TLB configuration registers before init_tlb.
TlbReset ==
    [ps |-> 0, pte_width |-> 0, ptbase |-> 0, ptwidth |-> 0, dir1_base |-> 0,
     dir1_width |-> 0, dir2_base |-> 0, dir2_width |-> 0, dir3_base |-> 0,
     dir3_width |-> 0, tlbrentry |-> 0]

\* The boot page tables as the image holds them: all entries 0.
BootPtZero == [l0_0 |-> 0, l1_0 |-> [base |-> 0, flags |-> 0], l1_2 |-> [base |-> 0, flags |-> 0]]

\* The stack tops the primary publishes for secondary processor c.
SecondaryStackTops(c) == {53248 + 8192 * c, 57344 + 8192 * c}

\* A processor before its first instruction.  What reset leaves undefined
\* (PGDH, PGDL, PRMD, sp, a0) holds a value left from before.
BootCoreReset(junk) ==
    [pc |-> "off", crmd |-> CrmdReset, prmd |-> junk.prmd, euen |-> junk.prmd,
     dmw0 |-> 0, dmw1 |-> 0, pgdh |-> junk.pgd, pgdl |-> junk.pgd, tlb |-> TlbReset,
     invtlb |-> FALSE, sp |-> junk.sp, a0 |-> junk.sp, target |-> 0, published |-> 0]

BootInit ==
    /\ \E junk \in [pgd : {0, 12288}, prmd : {0, 4}, sp : {0, 64}] :
         bcore = [c \in BootCpus |->
                    IF c = 0 THEN [BootCoreReset(junk) EXCEPT !.pc = "dmw"]
                    ELSE BootCoreReset(junk)]
    /\ bmem = [pt |-> BootPtZero, smp_boot_stack_top |-> 0]

\* The state of the boot variables while another component is running.
BootParked ==
    /\ bcore = <<>>
    /\ bmem = <<>>

\* The primary, in the kernel, publishes a stack top in SMP_BOOT_STACK_TOP
\* and starts secondary processor c; it starts them one at a time.
StartSecondary(c) ==
    /\ c # 0
    /\ bcore[0].pc = "entry"
    /\ \A d \in BootCpus : d # 0 => bcore[d].pc \in {"off", "entry"}
    /\ bcore[c].pc = "off"
    /\ \E top \in SecondaryStackTops(c) :
         /\ bmem' = [bmem EXCEPT !.smp_boot_stack_top = top]
         /\ bcore' = [bcore EXCEPT ![c].pc = "dmw", ![c].published = top]

\* csrwr to DMWIN0 and DMWIN1: the uncached window 0x8000... and the cached
\* window 0x9000..., both for PLV0.
B_Dmw(c) ==
    /\ bcore[c].pc = "dmw"
    /\ bcore' = [bcore EXCEPT ![c].dmw0 = [vseg |-> 8, mat |-> 0, plv0 |-> TRUE],
                              ![c].dmw1 = [vseg |-> 9, mat |-> 1, plv0 |-> TRUE],
                              ![c].pc = "stack"]
    /\ UNCHANGED bmem

\* _start: la.global $sp, BOOT_STACK; add.d $sp, $sp, TASK_STACK_SIZE
B_Stack(c) ==
    /\ bcore[c].pc = "stack"
    /\ c = 0
    /\ bcore' = [bcore EXCEPT ![c].sp = BootImage.boot_stack + BootImage.boot_stack_size,
                              ![c].pc = "init_pt"]
    /\ UNCHANGED bmem

\* _start_secondary: la.abs $t0, SMP_BOOT_STACK_TOP; ld.d $sp, $t0, 0
B_StackSecondary(c) ==
    /\ bcore[c].pc = "stack"
    /\ c # 0
    /\ bcore' = [bcore EXCEPT ![c].sp = bmem.smp_boot_stack_top, ![c].pc = "init_mmu"]
    /\ UNCHANGED bmem

\* bl init_boot_page_table
init_boot_page_table(c) ==
    /\ bcore[c].pc = "init_pt"
    /\ bmem' = [bmem EXCEPT !.pt = [l0_0 |-> virt_to_phys(BootImage.boot_pt_l1),
                                    l1_0 |-> [base |-> 0, flags |-> HUGE_FLAGS],
                                    l1_2 |-> [base |-> 2, flags |-> HUGE_FLAGS]]]
    /\ bcore' = [bcore EXCEPT ![c].pc = "init_mmu"]

\* bl init_mmu: init_tlb(); pgdh::set_base(phys of BOOT_PT_L0);
\* pgdl::set_base(0)
init_mmu(c) ==
    /\ bcore[c].pc = "init_mmu"
    /\ bcore' = [bcore EXCEPT ![c].tlb = init_tlb,
                              ![c].pgdh = virt_to_phys(BootImage.boot_pt_l0),
                              ![c].pgdl = 0,
                              ![c].pc = "invtlb"]
    /\ UNCHANGED bmem

\* invtlb 0x00, $r0, $r0
B_Invtlb(c) ==
    /\ bcore[c].pc = "invtlb"
    /\ bcore' = [bcore EXCEPT ![c].invtlb = TRUE, ![c].pc = "crmd"]
    /\ UNCHANGED bmem

\* The mutant of B_EnablePg: the value written to CRMD has the IE bit.
B_EnablePgIe(c) ==
    /\ bcore[c].pc = "crmd"
    /\ bcore' = [bcore EXCEPT ![c].crmd = CrmdOf(180), ![c].pc = "prmd"]
    /\ UNCHANGED bmem

\* li.w $t0, 0xb0; csrwr $t0, 0x0
B_EnablePg(c) ==
    /\ bcore[c].pc = "crmd"
    /\ bcore' = [bcore EXCEPT ![c].crmd = CrmdOf(176), ![c].pc = "prmd"]
    /\ UNCHANGED bmem

\* li.w $t0, 0x00; csrwr $t0, 0x1
B_Prmd(c) ==
    /\ bcore[c].pc = "prmd"
    /\ bcore' = [bcore EXCEPT ![c].prmd = 0, ![c].pc = "euen"]
    /\ UNCHANGED bmem

\* li.w $t0, 0x00; csrwr $t0, 0x2
B_Euen(c) ==
    /\ bcore[c].pc = "euen"
    /\ bcore' = [bcore EXCEPT ![c].euen = 0, ![c].pc = "cpuid"]
    /\ UNCHANGED bmem

\* csrrd $a0, 0x20
B_Cpuid(c) ==
    /\ bcore[c].pc = "cpuid"
    /\ bcore' = [bcore EXCEPT ![c].a0 = c, ![c].pc = "jump"]
    /\ UNCHANGED bmem

\* la.global $t0, entry; jirl $zero, $t0, 0
B_Jump(c) ==
    /\ bcore[c].pc = "jump"
    /\ bcore' = [bcore EXCEPT ![c].target = IF c = 0 THEN BootImage.rust_entry
                                             ELSE BootImage.rust_entry_secondary,
                              ![c].pc = "entry"]
    /\ UNCHANGED bmem

BootNext ==
    /\ \E c \in BootCpus :
         \/ StartSecondary(c)
         \/ B_Dmw(c)
         \/ B_Stack(c)
         \/ B_StackSecondary(c)
         \/ init_boot_page_table(c)
         \/ init_mmu(c)
         \/ B_Invtlb(c)
         \/ B_EnablePg(c)
         \/ B_Prmd(c)
         \/ B_Euen(c)
         \/ B_Cpuid(c)
         \/ B_Jump(c)
    /\ UNCHANGED <<stackVars, tableVars, logVars, platVars, archVars, enterVars, switchVars,
                   elfVars, flatVars, maskVars>>

(***************************************************************************)
(* flatten_objects/src/lib.rs: FlattenObjects<T, CAP>.  The objects are    *)
(* MaybeUninit slots: a slot that was never written is "uninit", and a     *)
(* slot whose object was moved out by remove keeps its bytes.  The bitmap  *)
(* is the set of its true bits.                                            *)
(***************************************************************************)
FlatCap == 2

\* id_bitmap: Bitmap<1024>
BITMAP_BITS == 1024

\* The objects stored.
Objs == {"a", "b"}

\* The IDs the methods are called with: every valid one and one that is
\* out of range.
IdInputs == 0..FlatCap

\* What a method returned: Ok(id), Err(value), Err(Some(old)), Err(None),
\* Some(object) or None.
Ret(tag, id, val) == [tag |-> tag, id |-> id, val |-> val]

\* FlattenObjects::new
FlattenObjectsNew ==
    [objects |-> [i \in 0..(FlatCap - 1) |-> "uninit"], id_bitmap |-> {}, count |-> 0]

FlatInit ==
    /\ fo = FlattenObjectsNew
    /\ fo_op = [op |-> "new", id |-> 0, val |-> "none", ret |-> Ret("none", 0, "none"),
                before |-> FlattenObjectsNew]

\* The state of the container variables while another component is
\* running.
FlatParked ==
    /\ fo = <<>>
    /\ fo_op = <<>>

\* Bitmap::first_false_index: the smallest index whose bit is false.
first_false_index(bm) ==
    IF \A i \in 0..(BITMAP_BITS - 1) : i \in bm THEN [some |-> FALSE, val |-> 0]
    ELSE [some |-> TRUE,
          val |-> CHOOSE i \in 0..(BITMAP_BITS - 1) :
                     i \notin bm /\ \A j \in 0..(i - 1) : j \in bm]

\* FlattenObjects::is_assigned
is_assigned(f, id) == id < FlatCap /\ id \in f.id_bitmap

\* self.count += 1; self.id_bitmap.set(id, true); self.objects[id].write(value)
WriteObject(f, id, value) ==
    [objects |-> [f.objects EXCEPT ![id] = value], id_bitmap |-> f.id_bitmap \cup {id},
     count |-> f.count + 1]

\* FlattenObjects::add
add(value) ==
    LET r == first_false_index(fo.id_bitmap) IN
    /\ IF r.some /\ r.val < FlatCap
       THEN /\ fo' = WriteObject(fo, r.val, value)
            /\ fo_op' = [op |-> "add", id |-> 0, val |-> value,
                         ret |-> Ret("Ok", r.val, "none"), before |-> fo]
       ELSE /\ fo' = fo
            /\ fo_op' = [op |-> "add", id |-> 0, val |-> value,
                         ret |-> Ret("Err", 0, value), before |-> fo]

\* FlattenObjects::add_at
add_at(id, value) ==
    IF id >= FlatCap \/ is_assigned(fo, id)
    THEN /\ fo' = fo
         /\ fo_op' = [op |-> "add_at", id |-> id, val |-> value,
                      ret |-> Ret("Err", 0, value), before |-> fo]
    ELSE /\ fo' = WriteObject(fo, id, value)
         /\ fo_op' = [op |-> "add_at", id |-> id, val |-> value,
                      ret |-> Ret("Ok", id, "none"), before |-> fo]

\* FlattenObjects::add_or_replace_at
add_or_replace_at(id, value) ==
    IF id >= FlatCap
    THEN /\ fo' = fo
         /\ fo_op' = [op |-> "add_or_replace_at", id |-> id, val |-> value,
                      ret |-> Ret("ErrNone", 0, "none"), before |-> fo]
    ELSE IF is_assigned(fo, id)
    THEN /\ fo' = [fo EXCEPT !.objects[id] = value]
         /\ fo_op' = [op |-> "add_or_replace_at", id |-> id, val |-> value,
                      ret |-> Ret("ErrSome", 0, fo.objects[id]), before |-> fo]
    ELSE /\ fo' = WriteObject(fo, id, value)
         /\ fo_op' = [op |-> "add_or_replace_at", id |-> id, val |-> value,
                      ret |-> Ret("Ok", id, "none"), before |-> fo]

\* The mutant of remove: the count is not decremented.
remove_keep_count(id) ==
    IF is_assigned(fo, id)
    THEN /\ fo' = [fo EXCEPT !.id_bitmap = @ \ {id}]
         /\ fo_op' = [op |-> "remove", id |-> id, val |-> "none",
                      ret |-> Ret("Some", 0, fo.objects[id]), before |-> fo]
    ELSE /\ fo' = fo
         /\ fo_op' = [op |-> "remove", id |-> id, val |-> "none",
                      ret |-> Ret("None", 0, "none"), before |-> fo]

\* FlattenObjects::remove
remove(id) ==
    IF is_assigned(fo, id)
    THEN /\ fo' = [fo EXCEPT !.id_bitmap = @ \ {id}, !.count = @ - 1]
         /\ fo_op' = [op |-> "remove", id |-> id, val |-> "none",
                      ret |-> Ret("Some", 0, fo.objects[id]), before |-> fo]
    ELSE /\ fo' = fo
         /\ fo_op' = [op |-> "remove", id |-> id, val |-> "none",
                      ret |-> Ret("None", 0, "none"), before |-> fo]

\* FlattenObjects::get
get(id) ==
    /\ fo' = fo
    /\ fo_op' = [op |-> "get", id |-> id, val |-> "none",
                 ret |-> IF is_assigned(fo, id) THEN Ret("Some", 0, fo.objects[id])
                         ELSE Ret("None", 0, "none"),
                 before |-> fo]

FlatNext ==
    /\ \/ \E v \in Objs : add(v)
       \/ \E id \in IdInputs, v \in Objs : add_at(id, v)
       \/ \E id \in IdInputs, v \in Objs : add_or_replace_at(id, v)
       \/ \E id \in IdInputs : remove(id)
       \/ \E id \in IdInputs : get(id)
    /\ UNCHANGED <<stackVars, tableVars, logVars, platVars, archVars, enterVars, switchVars,
                   elfVars, bootVars, maskVars>>

(***************************************************************************)
(* cpumask/src/lib.rs: CpuMask<SIZE> and its Iter.  The mask is the set of *)
(* its true bits; an Option<usize> is a record (some, val).                *)
(***************************************************************************)
MaskSize == 3

\* The number of next and next_back calls followed.
MaxNexts == 4

NoneIdx == [some |-> FALSE, val |-> 0]

SomeIdx(i) == [some |-> TRUE, val |-> i]

\* CpuMask::first_index: the first true bit.
first_index(m) ==
    IF m = {} THEN NoneIdx ELSE SomeIdx(CHOOSE i \in m : \A j \in m : i <= j)

\* CpuMask::last_index: the last true bit.
last_index(m) ==
    IF m = {} THEN NoneIdx ELSE SomeIdx(CHOOSE i \in m : \A j \in m : i >= j)

\* CpuMask::next_index: the first true bit after index.
next_index(m, index) == first_index({i \in m : i > index})

\* CpuMask::prev_index: the last true bit before index.
prev_index(m, index) == last_index({i \in m : i < index})

\* IntoIterator for &CpuMask: into_iter
into_iter == [head |-> NoneIdx, tail |-> SomeIdx(MaskSize + 1)]

MaskInit ==
    /\ mask \in SUBSET (0..(MaskSize - 1))
    /\ iter = into_iter
    /\ iter_log = <<>>

\* The state of the mask variables while another component is running.
MaskParked ==
    /\ mask = {}
    /\ iter = <<>>
    /\ iter_log = <<>>

\* Iterator::next of Iter: the iterator after the call and what the call
\* returned.
Iter_next(it, m) ==
    LET result == IF ~it.head.some THEN first_index(m)
                  ELSE IF it.head.val >= MaskSize THEN NoneIdx
                  ELSE next_index(m, it.head.val)
    IN  IF result.some
        THEN IF it.tail.some /\ it.tail.val < result.val
             THEN [it |-> [head |-> SomeIdx(MaskSize + 1), tail |-> NoneIdx], ret |-> NoneIdx]
             ELSE IF ~it.tail.some
             THEN [it |-> [it EXCEPT !.head = SomeIdx(MaskSize + 1)], ret |-> NoneIdx]
             ELSE [it |-> [it EXCEPT !.head = result], ret |-> result]
        ELSE [it |-> [it EXCEPT !.head = SomeIdx(MaskSize + 1)], ret |-> result]

\* DoubleEndedIterator::next_back of Iter
Iter_next_back(it, m) ==
    LET result == IF ~it.tail.some THEN NoneIdx
                  ELSE IF it.tail.val >= MaskSize THEN last_index(m)
                  ELSE prev_index(m, it.tail.val)
    IN  IF result.some
        THEN IF it.head.some /\ it.head.val > result.val
             THEN [it |-> [head |-> SomeIdx(MaskSize + 1), tail |-> NoneIdx], ret |-> NoneIdx]
             ELSE [it |-> [it EXCEPT !.tail = result], ret |-> result]
        ELSE [it |-> [it EXCEPT !.tail = NoneIdx], ret |-> result]

\* A call of next()
CallNext ==
    /\ Len(iter_log) < MaxNexts
    /\ LET r == Iter_next(iter, mask) IN
        /\ iter' = r.it
        /\ iter_log' = Append(iter_log, [end |-> "front", ret |-> r.ret])
    /\ UNCHANGED mask

\* A call of next_back()
CallNextBack ==
    /\ Len(iter_log) < MaxNexts
    /\ LET r == Iter_next_back(iter, mask) IN
        /\ iter' = r.it
        /\ iter_log' = Append(iter_log, [end |-> "back", ret |-> r.ret])
    /\ UNCHANGED mask

MaskNext ==
    /\ \/ CallNext
       \/ CallNextBack
    /\ UNCHANGED <<stackVars, tableVars, logVars, platVars, archVars, enterVars, switchVars,
                   elfVars, bootVars, flatVars>>

\* The state of the boot and library variables while another component
\* is running.
LibParked == BootParked /\ FlatParked /\ MaskParked

(***************************************************************************)
(* axhal, platform loongarch64_qemu_virt: irq.rs.  The timer has a slot of *)
(* its own, TIMER_HANDLER; the external interrupt goes through the common  *)
(* table IRQ_HANDLER_TABLE: HandlerTable<MAX_IRQ_COUNT>.                   *)
(***************************************************************************)
MAX_IRQ_COUNT == 256
EXT_IRQ_NUM == 2
TIMER_IRQ_NUM == 11

\* The causes the callers pass: the two the platform knows, one in range
\* that has no slot, and the first one out of range.
IrqInputs == {TIMER_IRQ_NUM, EXT_IRQ_NUM, 0, MAX_IRQ_COUNT}

NoCall == [fn |-> "none", irq_num |-> 0, handler |-> 0]

PlatInit ==
    /\ TIMER_HANDLER = [inited |-> FALSE, data |-> 0]
    /\ ppc = [c \in Cores |-> "idle"]
    /\ pcall = [c \in Cores |-> NoCall]
    /\ pret = [c \in Cores |-> FALSE]
    /\ panicked = ""
    /\ registered = [i \in {TIMER_IRQ_NUM, EXT_IRQ_NUM} |-> 0]
    /\ must = [c \in Cores |-> 0]
    /\ timer_pending = [c \in Cores |-> FALSE]
    /\ reraised = [c \in Cores |-> FALSE]

\* panic!(): the core stops, and the kernel with it.
Panic(c, msg) ==
    /\ panicked' = msg
    /\ ppc' = [ppc EXCEPT ![c] = "panic"]

\* The handler whose registration for this cause has returned true, 0 if none.
RegisteredFor(irq_num) ==
    IF irq_num \in DOMAIN registered THEN registered[irq_num] ELSE 0

\* crate::irq::register_handler_common(irq_num, handler), up to its call of
\* IRQ_HANDLER_TABLE.register_handler(irq_num, handler).
register_handler_common(c, irq_num, handler) ==
    IF irq_num < MAX_IRQ_COUNT
    THEN /\ Enter(c, "register_handler", irq_num, handler)
         /\ ppc' = [ppc EXCEPT ![c] = "register_handler_common"]
         /\ UNCHANGED <<pret, registered>>
    ELSE /\ pret' = [pret EXCEPT ![c] = FALSE]
         /\ ppc' = [ppc EXCEPT ![c] = "idle"]
         /\ UNCHANGED <<tableVars, registered>>

\* crate::irq::dispatch_irq_common(irq_num), up to its call of
\* IRQ_HANDLER_TABLE.handle(irq_num).
dispatch_irq_common(c, irq_num) ==
    /\ Enter(c, "handle", irq_num, 0)
    /\ ppc' = [ppc EXCEPT ![c] = "dispatch_irq_common"]

\* dispatch_irq, @EXT => crate::irq::dispatch_irq_common(0)
ExtDispatchSlot(irq_num) == 0

\* register_handler(irq_num, handler): the with_cause! match.
P_CallRegister(c) ==
    /\ panicked = ""
    /\ ppc[c] = "idle"
    /\ calls < MaxCalls
    /\ calls' = calls + 1
    /\ \E irq_num \in IrqInputs :
        /\ pcall' = [pcall EXCEPT ![c] = [fn |-> "register_handler",
                         irq_num |-> irq_num, handler |-> HandlerOf(c)]]
        /\ IF irq_num = TIMER_IRQ_NUM
           THEN /\ ppc' = [ppc EXCEPT ![c] = "timer_is_inited"]
                /\ UNCHANGED <<tableVars, pret, panicked, registered>>
           ELSE IF irq_num = EXT_IRQ_NUM
           THEN /\ register_handler_common(c, irq_num, HandlerOf(c))
                /\ UNCHANGED panicked
           ELSE /\ Panic(c, "invalid trap cause")
                /\ UNCHANGED <<tableVars, pret, registered>>
    /\ UNCHANGED <<TIMER_HANDLER, must, order, timerVars, stackVars, archVars, restVars>>

\* @TIMER => if !TIMER_HANDLER.is_inited() { ... } else { false }
P_TimerIsInited(c) ==
    /\ panicked = ""
    /\ ppc[c] = "timer_is_inited"
    /\ IF ~TIMER_HANDLER.inited
       THEN /\ ppc' = [ppc EXCEPT ![c] = "timer_init_once"]
            /\ pret' = pret
       ELSE /\ ppc' = [ppc EXCEPT ![c] = "idle"]
            /\ pret' = [pret EXCEPT ![c] = FALSE]
    /\ UNCHANGED <<TIMER_HANDLER, pcall, panicked, registered, must, timerVars, tableVars,
                   logVars, stackVars, archVars, restVars>>

\* TIMER_HANDLER.init_once(handler); true.  LazyInit::init_once panics when
\* the value is already initialized.
P_TimerInitOnce(c) ==
    /\ panicked = ""
    /\ ppc[c] = "timer_init_once"
    /\ IF TIMER_HANDLER.inited
       THEN /\ Panic(c, "Already initialized")
            /\ UNCHANGED <<TIMER_HANDLER, pret, registered>>
       ELSE /\ TIMER_HANDLER' = [inited |-> TRUE, data |-> pcall[c].handler]
            /\ pret' = [pret EXCEPT ![c] = TRUE]
            /\ registered' = [registered EXCEPT ![TIMER_IRQ_NUM] = pcall[c].handler]
            /\ ppc' = [ppc EXCEPT ![c] = "idle"]
            /\ panicked' = panicked
    /\ UNCHANGED <<pcall, must, timerVars, tableVars, logVars, stackVars, archVars, restVars>>

\* register_handler_common after the table's register_handler returned:
\* set_enable(irq_num, true) (nothing for a cause other than the timer) and
\* true, or false.
P_RegisterCommonRet(c) ==
    /\ panicked = ""
    /\ ppc[c] = "register_handler_common"
    /\ cpc[c] = "idle"
    /\ pret' = [pret EXCEPT ![c] = ret[c]]
    /\ registered' = IF ret[c]
                      THEN [registered EXCEPT ![pcall[c].irq_num] = pcall[c].handler]
                      ELSE registered
    /\ ppc' = [ppc EXCEPT ![c] = "idle"]
    /\ UNCHANGED <<TIMER_HANDLER, pcall, panicked, must, timerVars, tableVars, logVars,
                   stackVars, archVars, restVars>>

\* dispatch_irq(irq_num): the with_cause! match.
P_CallDispatch(c) ==
    /\ panicked = ""
    /\ ppc[c] = "idle"
    /\ calls < MaxCalls
    /\ calls' = calls + 1
    /\ \E irq_num \in IrqInputs :
        /\ pcall' = [pcall EXCEPT ![c] = [fn |-> "dispatch_irq",
                         irq_num |-> irq_num, handler |-> 0]]
        /\ must' = [must EXCEPT ![c] = RegisteredFor(irq_num)]
        /\ IF irq_num = TIMER_IRQ_NUM
           THEN /\ ppc' = [ppc EXCEPT ![c] = "clear_timer_interrupt"]
                /\ invoked' = [invoked EXCEPT ![c] = <<>>]
                \* the timer interrupt is what brought the core here
                /\ timer_pending' = [timer_pending EXCEPT ![c] = TRUE]
                /\ reraised' = [reraised EXCEPT ![c] = FALSE]
                /\ UNCHANGED <<N, handlers, cpc, op, ret, local_handler, handlers0, panicked>>
           ELSE IF irq_num = EXT_IRQ_NUM
           THEN /\ dispatch_irq_common(c, ExtDispatchSlot(irq_num))
                /\ UNCHANGED <<panicked, timerVars>>
           ELSE /\ Panic(c, "invalid trap cause")
                /\ invoked' = [invoked EXCEPT ![c] = <<>>]
                /\ UNCHANGED <<N, handlers, cpc, op, ret, local_handler, handlers0, timerVars>>
    /\ UNCHANGED <<TIMER_HANDLER, pret, registered, order, stackVars, archVars, restVars>>

\* ticlr::clear_timer_interrupt()
P_TimerClear(c) ==
    /\ panicked = ""
    /\ ppc[c] = "clear_timer_interrupt"
    /\ timer_pending' = [timer_pending EXCEPT ![c] = FALSE]
    /\ ppc' = [ppc EXCEPT ![c] = "timer_handler"]
    /\ UNCHANGED <<TIMER_HANDLER, pcall, pret, panicked, registered, must, reraised,
                   tableVars, logVars, stackVars, archVars, restVars>>

\* TIMER_HANDLER(): the deref of a LazyInit panics when it is not initialized.
P_TimerHandler(c) ==
    /\ panicked = ""
    /\ ppc[c] = "timer_handler"
    /\ IF ~TIMER_HANDLER.inited
       THEN /\ Panic(c, "Use uninitialized value")
            /\ invoked' = invoked
       ELSE /\ invoked' = [invoked EXCEPT ![c] = Append(invoked[c], TIMER_HANDLER.data)]
            /\ ppc' = [ppc EXCEPT ![c] = "timer_handler_running"]
            /\ panicked' = panicked
    /\ UNCHANGED <<TIMER_HANDLER, pcall, pret, registered, must, timerVars, N, handlers,
                   cpc, op, ret, local_handler, handlers0, logVars, stackVars, archVars, restVars>>

\* The hardware timer fires again while the handler runs (the handler has
\* programmed the next deadline): the pending bit of the core is set.
P_TimerRaise(c) ==
    /\ panicked = ""
    /\ ppc[c] = "timer_handler_running"
    /\ ~timer_pending[c]
    /\ timer_pending' = [timer_pending EXCEPT ![c] = TRUE]
    /\ reraised' = [reraised EXCEPT ![c] = TRUE]
    /\ UNCHANGED <<TIMER_HANDLER, ppc, pcall, pret, panicked, registered, must,
                   tableVars, logVars, stackVars, archVars, restVars>>

\* The mutant of P_TimerHandlerRet: the pending bit is cleared after the
\* handler has run.
P_TimerHandlerRetClear(c) ==
    /\ panicked = ""
    /\ ppc[c] = "timer_handler_running"
    /\ ppc' = [ppc EXCEPT ![c] = "idle"]
    /\ timer_pending' = [timer_pending EXCEPT ![c] = FALSE]
    /\ UNCHANGED <<TIMER_HANDLER, pcall, pret, panicked, registered, must, reraised,
                   tableVars, logVars, stackVars, archVars, restVars>>

\* TIMER_HANDLER() returns, and dispatch_irq with it.
P_TimerHandlerRet(c) ==
    /\ panicked = ""
    /\ ppc[c] = "timer_handler_running"
    /\ ppc' = [ppc EXCEPT ![c] = "idle"]
    /\ UNCHANGED <<TIMER_HANDLER, pcall, pret, panicked, registered, must, timerVars,
                   tableVars, logVars, stackVars, archVars, restVars>>

\* dispatch_irq_common after the table's handle returned (it warns when the
\* IRQ was not handled).
P_DispatchCommonRet(c) ==
    /\ panicked = ""
    /\ ppc[c] = "dispatch_irq_common"
    /\ cpc[c] = "idle"
    /\ ppc' = [ppc EXCEPT ![c] = "idle"]
    /\ UNCHANGED <<TIMER_HANDLER, pcall, pret, panicked, registered, must, timerVars,
                   tableVars, logVars, stackVars, archVars, restVars>>

\* The methods of IRQ_HANDLER_TABLE that the platform reaches.
Irq_RegisterHandler(c) ==
    panicked = "" /\ RegisterHandler(c) /\ UNCHANGED <<logVars, stackVars, platVars, archVars, restVars>>

\* IRQ_HANDLER_TABLE.handle: the load, and the call of the handler when the
\* load found one (position "invoke").
Irq_Handle(c) ==
    /\ panicked = ""
    /\ (HandleLoad(c) \/ HandleInvoke(c))
    /\ UNCHANGED <<logVars, stackVars, platVars, archVars, restVars>>

IrqNext ==
    \E c \in Cores :
        \/ P_CallRegister(c)
        \/ P_TimerIsInited(c)
        \/ P_TimerInitOnce(c)
        \/ P_RegisterCommonRet(c)
        \/ P_CallDispatch(c)
        \/ P_TimerClear(c)
        \/ P_TimerHandler(c)
        \/ P_TimerRaise(c)
        \/ P_TimerHandlerRet(c)
        \/ P_DispatchCommonRet(c)
        \/ Irq_RegisterHandler(c)
        \/ Irq_Handle(c)

IrqSpecInit == StackParked /\ TableInit(MAX_IRQ_COUNT) /\ PlatInit /\ TrapParked /\ UctxParked /\ EnterInit /\ SwitchParked /\ ElfParked /\ LibParked

SpecIrq == IrqSpecInit /\ [][IrqNext]_vars

(***************************************************************************)
(* SpecTable: the cores call the methods of one HandlerTable<TableN>, that *)
(* starts empty, again and again.                                          *)
(***************************************************************************)
HT_Call(c) ==
    /\ cpc[c] = "idle"
    /\ calls < MaxCalls
    /\ calls' = calls + 1
    /\ \/ CallRegister(c)
       \/ CallUnregister(c)
       \/ CallHandle(c)
    /\ UNCHANGED <<order, stackVars, platVars, archVars, restVars>>

HT_RegisterHandler(c) == RegisterHandler(c) /\ UNCHANGED <<logVars, stackVars, platVars, archVars, restVars>>

HT_UnregisterHandler(c) == UnregisterHandler(c) /\ UNCHANGED <<logVars, stackVars, platVars, archVars, restVars>>

HT_HandleLoad(c) == HandleLoad(c) /\ UNCHANGED <<logVars, stackVars, platVars, archVars, restVars>>

HT_HandleInvoke(c) == HandleInvoke(c) /\ UNCHANGED <<logVars, stackVars, platVars, archVars, restVars>>

TableNext ==
    \E c \in Cores :
        \/ HT_Call(c)
        \/ HT_RegisterHandler(c)
        \/ HT_UnregisterHandler(c)
        \/ HT_HandleLoad(c)
        \/ HT_HandleInvoke(c)

TableSpecInit == StackParked /\ TableInit(TableN) /\ PlatInit /\ TrapParked /\ UctxParked /\ EnterInit /\ SwitchParked /\ ElfParked /\ LibParked

SpecTable == TableSpecInit /\ [][TableNext]_vars

(***************************************************************************)
(* SpecRace: every core calls one method of the table, once, all at the    *)
(* same time; the table starts with any of its slots occupied.  `order`    *)
(* records the order in which the atomic accesses took effect.             *)
(***************************************************************************)
RaceInit ==
    /\ N = TableN
    /\ handlers \in {[j \in S |-> HandlerOf(1)] : S \in SUBSET (0..(TableN - 1))}
    /\ handlers0 = handlers
    /\ cpc = [c \in Cores |-> "idle"]
    /\ op = [c \in Cores |-> NoOp]
    /\ ret = [c \in Cores |-> FALSE]
    /\ local_handler = [c \in Cores |-> 0]
    /\ invoked = [c \in Cores |-> <<>>]
    /\ order = <<>>
    /\ calls = 0

Race_Call(c) ==
    /\ cpc[c] = "idle"
    /\ op[c].name = "none"
    /\ \/ CallRegister(c)
       \/ CallUnregister(c)
       \/ CallHandle(c)
    /\ UNCHANGED <<logVars, stackVars, platVars, archVars, restVars>>

Race_RegisterHandler(c) ==
    RegisterHandler(c) /\ order' = Append(order, c) /\ UNCHANGED <<calls, stackVars, platVars, archVars, restVars>>

Race_UnregisterHandler(c) ==
    UnregisterHandler(c) /\ order' = Append(order, c) /\ UNCHANGED <<calls, stackVars, platVars, archVars, restVars>>

Race_HandleLoad(c) ==
    HandleLoad(c) /\ order' = Append(order, c) /\ UNCHANGED <<calls, stackVars, platVars, archVars, restVars>>

Race_HandleInvoke(c) == HandleInvoke(c) /\ UNCHANGED <<logVars, stackVars, platVars, archVars, restVars>>

RaceNext ==
    \E c \in Cores :
        \/ Race_Call(c)
        \/ Race_RegisterHandler(c)
        \/ Race_UnregisterHandler(c)
        \/ Race_HandleLoad(c)
        \/ Race_HandleInvoke(c)

RaceSpecInit == StackParked /\ RaceInit /\ PlatInit /\ TrapParked /\ UctxParked /\ EnterInit /\ SwitchParked /\ ElfParked /\ LibParked

SpecRace == RaceSpecInit /\ [][RaceNext]_vars

(***************************************************************************)
(* SpecStack: app_stack_region on every input of the bounded sets.         *)
(***************************************************************************)
StackSpecInit == StackInit /\ TableInit(TableN) /\ PlatInit /\ TrapParked /\ UctxParked /\ EnterInit /\ SwitchParked /\ ElfParked /\ LibParked

SpecStack == StackSpecInit /\ [][StackNext]_vars

(***************************************************************************)
(* SpecTrap: traps of every cause, one after the other, on one core.       *)
(***************************************************************************)
TrapSpecInit == StackParked /\ TableInit(TableN) /\ PlatInit /\ TrapInit /\ UctxParked /\ EnterInit /\ SwitchParked /\ ElfParked /\ LibParked

SpecTrap == TrapSpecInit /\ [][TrapNext]_vars

(***************************************************************************)
(* SpecUctx: a user context is constructed, adjusted and entered.          *)
(***************************************************************************)
UctxSpecInit == StackParked /\ TableInit(TableN) /\ PlatInit /\ TrapParked /\ UctxInit /\ EnterInit /\ SwitchParked /\ ElfParked /\ LibParked

SpecUctx == UctxSpecInit /\ [][UctxNext]_vars

\* Entering user space on each core.
EnterSpecInit ==
    StackParked /\ TableInit(TableN) /\ PlatInit /\ TrapParked /\ UctxParked /\ EnterInit /\ SwitchParked /\ ElfParked /\ LibParked

SpecEnter == EnterSpecInit /\ [][EnterNext]_vars

\* Task switching on one core.
SwitchSpecInit ==
    StackParked /\ TableInit(TableN) /\ PlatInit /\ TrapParked /\ UctxParked /\ EnterInit
        /\ SwitchInit /\ ElfParked /\ LibParked

SpecSwitch == SwitchSpecInit /\ [][SwitchNext]_vars

\* The boot of the processors.
BootSpecInit ==
    StackParked /\ TableInit(TableN) /\ PlatInit /\ TrapParked /\ UctxParked /\ EnterInit
        /\ SwitchParked /\ ElfParked /\ BootInit /\ FlatParked /\ MaskParked

SpecBoot == BootSpecInit /\ [][BootNext]_vars

\* A FlattenObjects under any sequence of calls.
FlatSpecInit ==
    StackParked /\ TableInit(TableN) /\ PlatInit /\ TrapParked /\ UctxParked /\ EnterInit
        /\ SwitchParked /\ ElfParked /\ BootParked /\ FlatInit /\ MaskParked

SpecFlat == FlatSpecInit /\ [][FlatNext]_vars

\* An Iter over a CpuMask under any interleaving of next and next_back.
MaskSpecInit ==
    StackParked /\ TableInit(TableN) /\ PlatInit /\ TrapParked /\ UctxParked /\ EnterInit
        /\ SwitchParked /\ ElfParked /\ BootParked /\ FlatParked /\ MaskInit

SpecMask == MaskSpecInit /\ [][MaskNext]_vars

\* Parsing an ELF image.
ElfSpecInit ==
    StackParked /\ TableInit(TableN) /\ PlatInit /\ TrapParked /\ UctxParked /\ EnterInit
        /\ SwitchParked /\ ElfInit /\ LibParked

SpecElf == ElfSpecInit /\ [][ElfNext]_vars

(***************************************************************************)
(* Reading the returned buffer back: the little-endian 8-byte word at byte *)
(* offset off (0-based), or -1 when the buffer is too short or the word    *)
(* does not fit the model's integers.                                      *)
(***************************************************************************)
WordAt(buf, off) ==
    IF off + 8 > Len(buf) THEN -1
    ELSE IF \/ buf[off + 4] >= 128
            \/ \E k \in 5..8 : buf[off + k] # 0 THEN -1
    ELSE ((buf[off + 4] * 256 + buf[off + 3]) * 256 + buf[off + 2]) * 256 + buf[off + 1]

\* The i-th word of the returned buffer (0-based).
W(i) == WordAt(data, 8 * i)

\* The final stack pointer as app_stack_region's caller computes it.
FinalSp == stack_base + stack_size - Len(data)

(***************************************************************************)
(* C1: for every args, envs and auxv the final stack pointer, stack_base + *)
(* stack_size - len(returned buffer), the address of the argc word, is a   *)
(* multiple of 16.  The code aligns the stack pointer before the auxiliary *)
(* vector is pushed and then pushes 2*len(auxv) + len(envs) + len(args) + 3*)
(* words, so the statement fails whenever len(args) + len(envs) is even.   *)
(***************************************************************************)
C1_FinalSpAligned == upc = "done" => FinalSp % 16 = 0

(***************************************************************************)
(* C2: the returned buffer, read as little-endian 8-byte words from offset *)
(* 0, is argc = args.len(), args.len() non-null argv pointers, a 0 word,   *)
(* envs.len() non-null envp pointers, a 0 word, then the auxv entries as   *)
(* (type, value) pairs in input order, ending with the type-0 entry.       *)
(***************************************************************************)
C2_BufferLayout ==
    upc = "done" =>
        LET na == Len(args)
            ne == Len(envs)
            a0 == na + ne + 3
        IN  /\ W(0) = na
            /\ \A i \in 1..na : W(i) > 0
            /\ W(na + 1) = 0
            /\ \A j \in 1..ne : W(na + 1 + j) > 0
            /\ W(na + ne + 2) = 0
            /\ \A k \in 1..Len(auxv_in) :
                  /\ W(a0 + 2 * (k - 1)) = auxv_in[k].auxv_type
                  /\ auxv_in[k].auxv_type \notin {AT_RANDOM, AT_EXECFN}
                        => W(a0 + 2 * (k - 1) + 1) = auxv_in[k].auxv_val
            /\ W(a0 + 2 * (Len(auxv_in) - 1)) = AT_NULL

C2_Witness ==
    /\ upc = "done"
    /\ Len(args) = 2
    /\ Len(envs) = 1
    /\ Len(auxv_in) = 4

(***************************************************************************)
(* C4: HandlerTable::register_handler(idx, h) returns true exactly when    *)
(* idx < N and slot idx is empty at the moment of the operation, and the   *)
(* slot then holds h; when it returns false no slot of the table changes.  *)
(* So a second registration of an index keeps the first handler.           *)
(***************************************************************************)
RegisterReturns(c) == cpc[c] = "register_handler" /\ cpc'[c] = "idle"

C4_RegisterCompareInstall ==
    [][\A c \in Cores :
        RegisterReturns(c) =>
            LET idx == op[c].idx IN
            /\ ret'[c] = (idx < N /\ Slot(handlers, idx) = 0)
            /\ ret'[c] => Slot(handlers', idx) = op[c].handler
            /\ \A j \in 0..(N - 1) :
                  (j # idx \/ ~ret'[c]) => Slot(handlers', j) = Slot(handlers, j)]_vars

\* Two cores have registered the same index, one after the other: the first
\* got true, the second false, and the slot holds the first one's handler.
C4_Witness ==
    \E c1, c2 \in Cores :
        /\ c1 # c2
        /\ cpc[c1] = "idle" /\ cpc[c2] = "idle"
        /\ op[c1].name = "register_handler" /\ op[c2].name = "register_handler"
        /\ op[c1].idx = op[c2].idx /\ op[c1].idx < N
        /\ ret[c1] /\ ~ret[c2] /\ ~op[c2].empty
        /\ Slot(handlers, op[c1].idx) = op[c1].handler

(***************************************************************************)
(* C5: when several cores call register_handler concurrently for the same  *)
(* empty in-range index, under every interleaving exactly one call returns *)
(* true, all others return false, and the slot afterwards holds the handler*)
(* of the call that returned true.                                         *)
(***************************************************************************)
\* The cores that called register_handler(idx, _) while slot idx was empty.
Racers(idx) ==
    {c \in Cores : op[c].name = "register_handler" /\ op[c].idx = idx /\ op[c].empty}

NoUnregisterOn(idx) ==
    \A c \in Cores : op[c].name = "unregister_handler" => op[c].idx # idx

C5_OneRegistrationWins ==
    \A idx \in 0..(N - 1) :
        NoUnregisterOn(idx) =>
            LET R == Racers(idx)
                done == {c \in R : cpc[c] = "idle"}
                won == {c \in done : ret[c]}
            IN  /\ Cardinality(won) <= 1
                /\ done # {} =>
                      \E w \in done :
                          /\ won = {w}
                          /\ Slot(handlers, idx) = op[w].handler

\* Two calls for one empty slot overlapped, and both have returned.
C5_Witness ==
    \E idx \in 0..(N - 1) : \E c1, c2 \in Racers(idx) :
        /\ c1 # c2
        /\ NoUnregisterOn(idx)
        /\ cpc[c1] = "idle" /\ cpc[c2] = "idle"
        /\ ret[c1] /\ ~ret[c2]

(***************************************************************************)
(* C6: under every interleaving of register_handler, unregister_handler    *)
(* and handle on different cores, a handle(idx) call either invokes nothing*)
(* and returns false, or invokes exactly one handler, which a              *)
(* register_handler call that returned true installed at idx and which was *)
(* in the slot at the instant handle read it; no other value is invoked.   *)
(***************************************************************************)
\* What a handle call has invoked, at each of its positions.
HandleInvokesOnce ==
    \A c \in Cores :
        op[c].name = "handle" =>
            /\ cpc[c] = "handle" => invoked[c] = <<>>
            /\ cpc[c] = "invoke" => invoked[c] = <<>> /\ local_handler[c] # 0
            /\ cpc[c] = "idle" =>
                  \/ ~ret[c] /\ invoked[c] = <<>>
                  \/ ret[c] /\ local_handler[c] # 0 /\ invoked[c] = <<local_handler[c]>>

\* The value handle goes on to invoke is the word of slot idx at the load.
HandleReadsSlot ==
    \A c \in Cores :
        (cpc[c] = "handle" /\ cpc'[c] # "handle" /\ op[c].idx < N) =>
            local_handler'[c] = Slot(handlers, op[c].idx)

\* A slot takes a non-zero value only from a register_handler call for that
\* slot that returns true, and that value is the handler of that call.
SlotsHoldRegisteredHandlers ==
    \A i \in 0..(N - 1) :
        (Slot(handlers', i) # Slot(handlers, i) /\ Slot(handlers', i) # 0) =>
            \E c \in Cores :
                /\ RegisterReturns(c)
                /\ op[c].idx = i
                /\ op[c].handler = Slot(handlers', i)
                /\ ret'[c]

C6_HandleInvokesInstalled ==
    /\ []HandleInvokesOnce
    /\ [][HandleReadsSlot /\ SlotsHoldRegisteredHandlers]_vars

\* handle has invoked a handler that another core unregistered after the load.
C6_Witness ==
    \E c \in Cores :
        /\ op[c].name = "handle" /\ cpc[c] = "idle" /\ ret[c]
        /\ invoked[c] # <<>>
        /\ Slot(handlers, op[c].idx) = 0

(***************************************************************************)
(* C11: HandlerTable::handle(idx) returns false and invokes no handler when*)
(* slot idx is empty or idx >= N, returns true exactly when it invoked the *)
(* installed handler once, and in both cases leaves every slot of the table*)
(* as it was.                                                              *)
(***************************************************************************)
\* A handle call that has returned: true exactly when it invoked one handler.
HandleReturnsInvoked ==
    \A c \in Cores :
        (op[c].name = "handle" /\ cpc[c] = "idle") =>
            /\ ret[c] <=> Len(invoked[c]) = 1
            /\ ~ret[c] <=> invoked[c] = <<>>

\* The steps of handle: the load decides, the call invokes the word loaded,
\* and neither writes the table.
HandleFrame ==
    \A c \in Cores :
        /\ (cpc[c] = "handle" /\ cpc'[c] # "handle") =>
              /\ handlers' = handlers
              /\ invoked'[c] = <<>>
              /\ IF op[c].idx >= N \/ Slot(handlers, op[c].idx) = 0
                 THEN cpc'[c] = "idle" /\ ~ret'[c]
                 ELSE cpc'[c] = "invoke"
        /\ (cpc[c] = "invoke" /\ cpc'[c] # "invoke") =>
              /\ handlers' = handlers
              /\ cpc'[c] = "idle" /\ ret'[c]
              /\ invoked'[c] = <<local_handler[c]>>

C11_HandleLeavesTable == []HandleReturnsInvoked /\ [][HandleFrame]_vars

\* handle has invoked a handler, and the handler is still in its slot.
C11_Witness ==
    \E c \in Cores :
        /\ op[c].name = "handle" /\ cpc[c] = "idle" /\ ret[c]
        /\ invoked[c] = <<local_handler[c]>>
        /\ Slot(handlers, op[c].idx) = local_handler[c]

(***************************************************************************)
(* C10: unregister_handler(idx) returns the handler installed at idx and   *)
(* leaves the slot empty, or returns None and changes nothing when idx is  *)
(* out of range or the slot is empty; of two cores that unregister the same*)
(* installed handler concurrently exactly one receives it; and after an    *)
(* unregister a register_handler on that index succeeds again.             *)
(***************************************************************************)
UnregisterReturns(c) == cpc[c] = "unregister_handler" /\ cpc'[c] = "idle"

UnregisterTakesSlot ==
    \A c \in Cores :
        UnregisterReturns(c) =>
            LET idx == op[c].idx IN
            /\ local_handler'[c] = IF idx < N THEN Slot(handlers, idx) ELSE 0
            /\ \A j \in 0..(N - 1) :
                  Slot(handlers', j) = IF j = idx THEN 0 ELSE Slot(handlers, j)

\* The place of core c's atomic access in `order`, 0 before it happened.
Pos(c) == IF \E i \in 1..Len(order) : order[i] = c
          THEN CHOOSE i \in 1..Len(order) : order[i] = c
          ELSE 0

Unregisterers(idx) ==
    {c \in Cores : op[c].name = "unregister_handler" /\ op[c].idx = idx /\ cpc[c] = "idle"}

OneUnregisterReceives ==
    \A idx \in 0..(N - 1) :
        (/\ Slot(handlers0, idx) # 0
         /\ Unregisterers(idx) # {}
         /\ \A c \in Cores : op[c].name = "register_handler" => op[c].idx # idx)
        => /\ \E u \in Unregisterers(idx) :
                /\ local_handler[u] = Slot(handlers0, idx)
                /\ \A v \in Unregisterers(idx) \ {u} : local_handler[v] = 0
           /\ Slot(handlers, idx) = 0

RegisterAfterUnregisterSucceeds ==
    \A u, r \in Cores :
        (/\ op[u].name = "unregister_handler"
         /\ op[r].name = "register_handler"
         /\ op[u].idx = op[r].idx /\ op[u].idx < N
         /\ 0 < Pos(u) /\ Pos(u) < Pos(r)
         /\ \A e \in Cores \ {r} :
               (op[e].name = "register_handler" /\ op[e].idx = op[r].idx)
                   => ~(Pos(u) < Pos(e) /\ Pos(e) < Pos(r)))
        => ret[r]

C10_UnregisterTakesHandler ==
    /\ [](OneUnregisterReceives /\ RegisterAfterUnregisterSucceeds)
    /\ [][UnregisterTakesSlot]_vars

\* Two cores have unregistered the same installed handler: one received it.
C10_Witness ==
    \E idx \in 0..(N - 1) : \E u, v \in Unregisterers(idx) :
        /\ u # v
        /\ Slot(handlers0, idx) # 0
        /\ local_handler[u] = Slot(handlers0, idx)
        /\ local_handler[v] = 0

(***************************************************************************)
(* C3: for the timer cause 11 and the external-interrupt cause 2, once     *)
(* register_handler(cause, h) has returned true, every later               *)
(* dispatch_irq(cause) invokes h.  For cause 2 the registration fills slot *)
(* 2 of IRQ_HANDLER_TABLE and dispatch_irq looks up slot 0.                *)
(***************************************************************************)
DispatchReturned(c) == pcall[c].fn = "dispatch_irq" /\ ppc[c] = "idle"

C3_DispatchInvokesRegistered ==
    \A c \in Cores :
        (DispatchReturned(c) /\ must[c] # 0) => invoked[c] = <<must[c]>>

(***************************************************************************)
(* C7: two cores call register_handler(TIMER_IRQ_NUM, _) concurrently while*)
(* no timer handler is installed: exactly one call returns true, the other *)
(* false, neither panics, the installed handler is the winner's, and no    *)
(* later timer registration returns true or replaces it.  The code tests   *)
(* is_inited() and then calls init_once(): both cores can pass the test,   *)
(* and the second init_once panics.                                        *)
(***************************************************************************)
TimerRegistration(c) ==
    pcall[c].fn = "register_handler" /\ pcall[c].irq_num = TIMER_IRQ_NUM

C7_TimerRegistrationAtomic ==
    /\ \A c \in Cores : TimerRegistration(c) => ppc[c] # "panic"
    /\ \A c \in Cores :
          (TimerRegistration(c) /\ ppc[c] = "idle" /\ pret[c]) =>
              /\ TIMER_HANDLER = [inited |-> TRUE, data |-> pcall[c].handler]
              /\ \A d \in Cores \ {c} :
                    (TimerRegistration(d) /\ ppc[d] = "idle") => ~pret[d]

(***************************************************************************)
(* C8: the platform register_handler reports every registration conflict,  *)
(* a slot in use or an irq_num out of range or without a slot, by          *)
(* returning false, without a panic and without changing a registration.   *)
(* The with_cause! match panics on every irq_num other than 11 and 2.      *)
(***************************************************************************)
C8_RegisterConflictReturnsFalse ==
    \A c \in Cores :
        pcall[c].fn = "register_handler" =>
            /\ ppc[c] # "panic"
            /\ (ppc[c] = "idle" /\ pcall[c].irq_num \notin {TIMER_IRQ_NUM, EXT_IRQ_NUM})
                  => ~pret[c]

(***************************************************************************)
(* C9: dispatch_irq(cause) for a cause that has no registered handler,     *)
(* including the timer cause before any timer handler was registered,      *)
(* invokes no handler and returns without a fatal halt.  TIMER_HANDLER()   *)
(* panics while the LazyInit is not initialized, and with_cause! panics on *)
(* every other cause than 11 and 2.                                        *)
(***************************************************************************)
\* No registration of the cause has returned true, and none is under way.
NoHandlerFor(irq_num) ==
    /\ RegisteredFor(irq_num) = 0
    /\ \A d \in Cores :
          (pcall[d].fn = "register_handler" /\ pcall[d].irq_num = irq_num)
              => ppc[d] \in {"idle", "panic"}

C9_DispatchWithoutHandlerReturns ==
    \A c \in Cores :
        (pcall[c].fn = "dispatch_irq" /\ NoHandlerFor(pcall[c].irq_num)) =>
            /\ ppc[c] # "panic"
            /\ invoked[c] = <<>>

(***************************************************************************)
(* C12: in dispatch_irq for the timer cause the pending timer interrupt is *)
(* cleared before the handler is invoked and never after it, so a timer    *)
(* interrupt raised again while the handler runs is still pending when     *)
(* dispatch_irq returns.                                                   *)
(***************************************************************************)
TimerDispatch(c) ==
    pcall[c].fn = "dispatch_irq" /\ pcall[c].irq_num = TIMER_IRQ_NUM

\* The pending bit is clear when TIMER_HANDLER is about to be called.
ClearedBeforeHandler ==
    \A c \in Cores :
        (TimerDispatch(c) /\ ppc[c] = "timer_handler") => ~timer_pending[c]

\* A timer interrupt raised while the handler ran survives the return.
ReraisedStillPending ==
    \A c \in Cores :
        (TimerDispatch(c) /\ ppc[c] = "idle" /\ reraised[c]) => timer_pending[c]

\* The pending bit is cleared only by the step before the handler's call.
ClearedOnlyBeforeHandler ==
    \A c \in Cores :
        (timer_pending[c] /\ ~timer_pending'[c]) =>
            /\ ppc[c] = "clear_timer_interrupt"
            /\ ppc'[c] = "timer_handler"
            /\ invoked[c] = <<>>

C13_SyscallFrameEffect ==
    estat_cause = "Syscall" =>
        /\ faults = <<>> /\ irqs = <<>>
        /\ tpc = "match" => syscalls = <<>> /\ tf = tf0
        /\ tpc = "handle_syscall" =>
              /\ tf = tf0
              /\ syscalls = <<[tf |-> tf0, syscall_num |-> tf0.regs[11], result |-> -1]>>
        /\ tpc = "returned" =>
              /\ Len(syscalls) = 1
              /\ syscalls[1].tf = tf0
              /\ syscalls[1].syscall_num = tf0.regs[11]
              /\ syscalls[1].result \in SyscallResults
              /\ tf = [tf0 EXCEPT !.regs[4] = syscalls[1].result, !.era = tf0.era + 4]
        /\ tpc \in {"match", "handle_syscall", "returned"}

\* A syscall has returned and has changed register 4.
C13_Witness ==
    /\ estat_cause = "Syscall"
    /\ tpc = "returned"
    /\ tf.regs[4] # tf0.regs[4]
    /\ tf.era = tf0.era + 4

(***************************************************************************)
(* C14: the access flags the dispatcher passes towards the address-space   *)
(* fault handler, before the user flag is added, are exactly {READ} for a  *)
(* load page fault, {WRITE} for a store page fault and {EXECUTE} for an    *)
(* instruction-fetch page fault.  The code passes READ for a fetch.        *)
(***************************************************************************)
C14_PageFaultAccessFlags ==
    \A i \in 1..Len(faults) :
        faults[i].passed =
            CASE estat_cause = "LoadPageFault" -> {"READ"}
              [] estat_cause = "StorePageFault" -> {"WRITE"}
              [] estat_cause = "FetchPageFault" -> {"EXECUTE"}
              [] OTHER -> {}

(***************************************************************************)
(* C15: for every page-fault trap the dispatcher delegates exactly once to *)
(* the address-space fault handler, with the address of the hardware       *)
(* fault-address register and with the USER flag exactly when from_user is *)
(* true; it returns, with the frame unmodified, exactly when the handler   *)
(* reports the fault resolved, and otherwise halts and never returns.      *)
(***************************************************************************)
PageFaultDelegated ==
    (estat_cause \in PageFaultCauses /\ tpc # "match") =>
        /\ Len(faults) = 1
        /\ faults[1].vaddr = badv_csr
        /\ ("USER" \in faults[1].access_flags) <=> from_user
        /\ faults[1].access_flags \ {"USER"} = faults[1].passed
        /\ faults[1].is_user = from_user
        /\ tf = tf0
        /\ syscalls = <<>> /\ irqs = <<>>
        /\ tpc = "handle_page_fault" <=> faults[1].handled = "pending"
        /\ tpc = "returned" <=> faults[1].handled = "resolved"
        /\ tpc = "panic_page_fault" <=> faults[1].handled = "unresolved"

\* After the panic nothing happens any more.
PageFaultPanicHalts == tpc = "panic_page_fault" => UNCHANGED vars

C15_PageFaultDelegation == []PageFaultDelegated /\ [][PageFaultPanicHalts]_vars

\* A user-mode store fault was resolved and the dispatcher has returned.
C15_Witness ==
    /\ estat_cause = "StorePageFault"
    /\ from_user
    /\ tpc = "returned"
    /\ faults[1].access_flags = {"WRITE", "USER"}
    /\ faults[1].vaddr # tf.badv

(***************************************************************************)
(* C16: for every trap cause other than syscall, load/fetch/store page     *)
(* fault, breakpoint and interrupt the dispatcher never returns: it halts, *)
(* without modifying the frame and without invoking the syscall, page-fault*)
(* or IRQ handler.                                                         *)
(***************************************************************************)
UnhandledCauseHalts ==
    estat_cause \in OtherCauses =>
        /\ tpc \in {"match", "panic_unhandled"}
        /\ tf = tf0
        /\ syscalls = <<>> /\ faults = <<>> /\ irqs = <<>>

UnhandledStep ==
    /\ (estat_cause \in OtherCauses /\ tpc = "match") => tpc' = "panic_unhandled"
    /\ tpc = "panic_unhandled" => UNCHANGED vars

C16_UnhandledCauseFatal == []UnhandledCauseHalts /\ [][UnhandledStep]_vars

C16_Witness ==
    /\ estat_cause \in OtherCauses
    /\ tpc = "panic_unhandled"
    /\ ntraps > 1

(***************************************************************************)
(* C17: on a Breakpoint trap the dispatcher adds exactly 4 to the saved pc,*)
(* changes nothing else in the frame, invokes no handler and returns; after*)
(* n consecutive breakpoint traps the saved pc has advanced by 4n and no   *)
(* breakpoint was taken twice.                                             *)
(***************************************************************************)
C17_BreakpointAdvances ==
    estat_cause = "Breakpoint" =>
        /\ tpc \in {"match", "returned"}
        /\ syscalls = <<>> /\ faults = <<>> /\ irqs = <<>>
        /\ tpc = "match" => tf = tf0
        /\ tpc = "returned" =>
              /\ tf = [tf0 EXCEPT !.era = tf0.era + 4]
              /\ bp_eras # <<>>
              /\ tf.era = bp_eras[1] + 4 * Len(bp_eras)
              /\ \A i, j \in 1..Len(bp_eras) : i # j => bp_eras[i] # bp_eras[j]

\* Two breakpoint traps in a row have returned.
C17_Witness ==
    /\ estat_cause = "Breakpoint"
    /\ tpc = "returned"
    /\ Len(bp_eras) >= 2

(***************************************************************************)
(* C18: on an interrupt trap the dispatcher routes exactly one interrupt   *)
(* source, whose number is the index of the lowest set bit of the          *)
(* pending-interrupt mask, also when several bits are pending, and leaves  *)
(* the frame unchanged.                                                    *)
(***************************************************************************)
Bit(m, i) == (m \div (2 ^ i)) % 2

LowestSetBit(m) ==
    CHOOSE i \in 0..12 : Bit(m, i) = 1 /\ \A j \in 0..(i - 1) : Bit(m, j) = 0

C18_InterruptRoutesLowestBit ==
    estat_cause = "Interrupt" =>
        /\ tpc \in {"match", "returned"}
        /\ tf = tf0
        /\ syscalls = <<>> /\ faults = <<>>
        /\ tpc = "match" => irqs = <<>>
        /\ tpc = "returned" => irqs = <<LowestSetBit(estat_is)>>

\* Two lines were pending at once and the lower one was routed.
C18_Witness ==
    /\ estat_cause = "Interrupt"
    /\ tpc = "returned"
    /\ Bit(estat_is, 2) = 1 /\ Bit(estat_is, 11) = 1
    /\ irqs = <<2>>

(***************************************************************************)
(* C19: every UspaceContext, however it was constructed (new, empty, from a*)
(* TrapFrame) and after any sequence of set_ip, set_sp and set_retval, has *)
(* a prmd field that encodes user privilege (PPLV = 3) with interrupts     *)
(* enabled (PIE = 1) until enter_uspace is called.  empty() zeroes the     *)
(* field and from() copies whatever the frame holds.                       *)
(***************************************************************************)
C19_PrmdUserModeIrqsOn ==
    Constructed =>
        /\ uctx.prmd % 4 = PPLV_UMODE
        /\ (uctx.prmd \div PIE) % 2 = 1

(***************************************************************************)
(* C20: after UspaceContext::new(entry, stack_top, arg0) and any sequence  *)
(* of set_ip, set_sp and set_retval, get_ip, get_sp and register 4 hold the*)
(* value most recently written to them (the constructor's if never set),   *)
(* and each setter changes only its own field.                             *)
(***************************************************************************)
ReadsLastWritten ==
    uctx_how = "new" =>
        /\ get_ip(uctx) = uctx_written.ip
        /\ get_sp(uctx) = uctx_written.sp
        /\ uctx.regs[4] = uctx_written.retval

SetterWritesOwnField ==
    (uctx_how = "new" /\ uctx_nsets' # uctx_nsets) =>
        /\ uctx_op'.name = "set_ip" => uctx' = [uctx EXCEPT !.era = uctx_op'.val]
        /\ uctx_op'.name = "set_sp" => uctx' = [uctx EXCEPT !.regs[3] = uctx_op'.val]
        /\ uctx_op'.name = "set_retval" => uctx' = [uctx EXCEPT !.regs[4] = uctx_op'.val]
        /\ uctx_op'.name \in {"set_ip", "set_sp", "set_retval"}

C20_SettersRoundTrip == []ReadsLastWritten /\ [][SetterWritesOwnField]_vars

\* All three fields hold values of their own, the stack pointer one that
\* set_sp wrote over the constructor's.
C20_Witness ==
    /\ uctx_how = "new"
    /\ uctx_op.name = "set_sp"
    /\ uctx_nsets >= 2
    /\ get_sp(uctx) # get_ip(uctx)
    /\ get_sp(uctx) # uctx.regs[4]
    /\ get_ip(uctx) # uctx.regs[4]

(***************************************************************************)
(* C21: on every core, from the moment enter_uspace is about to execute    *)
(* ertn, while the core is in user mode, and at the next trap from user    *)
(* mode, KSAVE_KSP holds the kstack_top of the most recent enter_uspace on *)
(* that core; a step of one core leaves the slot of every other core alone.*)
(***************************************************************************)
SlotHoldsLatestKstackTop ==
    \A c \in Cores :
        epc[c] \in {"ertn", "user"} => cpu[c].ksave_ksp = earg[c].kstack_top

SlotAtNextTrap ==
    \A c \in Cores :
        (epc[c] = "user" /\ epc'[c] = "kernel") =>
            /\ cpu[c].ksave_ksp = earg[c].kstack_top
            /\ cpu'[c].ksave_ksp = earg[c].kstack_top

SlotIsPerCore ==
    \A c \in Cores :
        epc'[c] # epc[c] =>
            \A d \in Cores \ {c} : cpu'[d].ksave_ksp = cpu[d].ksave_ksp

C21_KernelStackSlotRefreshed ==
    []SlotHoldsLatestKstackTop /\ [][SlotAtNextTrap /\ SlotIsPerCore]_vars

\* Core 1 is in user mode after its second entry, made with another kernel
\* stack than the first, while core 2 is in user mode on a stack of its own.
C21_Witness ==
    /\ epc[1] = "user" /\ epc[2] = "user"
    /\ earg[1].prev # 0
    /\ earg[1].prev # earg[1].kstack_top
    /\ cpu[1].ksave_ksp = earg[1].kstack_top
    /\ cpu[2].ksave_ksp = earg[2].kstack_top
    /\ cpu[2].ksave_ksp # cpu[1].ksave_ksp

(***************************************************************************)
(* C22: enter_uspace never returns to its caller; interrupts are disabled  *)
(* by its first step and stay disabled up to ertn; at ertn PRMD holds user *)
(* privilege with interrupts enabled and ERA the context's saved pc; after *)
(* ertn the core runs in user mode with interrupts enabled, pc = the saved *)
(* pc, sp = saved register 3 and r1, r2, r4..r31 as saved, whatever the    *)
(* context's own prmd field holds.                                         *)
(***************************************************************************)
IrqsOffInsideEnter ==
    \A c \in Cores :
        epc[c] \in {"set_prmd", "set_era", "asm_save", "asm_restore", "ertn"} =>
            ~cpu[c].ie

ReturnProgrammed ==
    \A c \in Cores :
        epc[c] = "ertn" =>
            /\ cpu[c].pplv = 3
            /\ cpu[c].pie
            /\ cpu[c].era = earg[c].ctx.era

LandsInUserMode ==
    \A c \in Cores :
        epc[c] = "user" =>
            /\ cpu[c].plv = 3
            /\ cpu[c].ie
            /\ cpu[c].pc = earg[c].ctx.era
            /\ \A i \in 1..31 : cpu[c].regs[i] = earg[c].ctx.regs[i]

\* The only way out of enter_uspace is ertn, and the kernel is entered
\* again only by a trap from user mode; the first step only clears CRMD.ie.
EnterNeverReturns ==
    \A c \in Cores :
        /\ (epc[c] # "kernel" /\ epc'[c] = "kernel") => epc[c] = "user"
        /\ (epc[c] = "ertn" /\ epc'[c] # "ertn") => epc'[c] = "user"
        /\ (epc[c] = "kernel" /\ epc'[c] # "kernel") => epc'[c] = "disable_irqs"
        /\ (epc[c] = "disable_irqs" /\ epc'[c] # "disable_irqs") =>
               cpu'[c] = [cpu[c] EXCEPT !.ie = FALSE]

C22_EnterUspaceOneWay ==
    /\ [](IrqsOffInsideEnter /\ ReturnProgrammed /\ LandsInUserMode)
    /\ [][EnterNeverReturns]_vars

\* A context whose prmd field is zero was entered from a kernel that had
\* interrupts enabled, and the core is in user mode.
C22_Witness ==
    \E c \in Cores :
        /\ epc[c] = "user"
        /\ earg[c].ctx.prmd = 0
        /\ earg[c].prev = 0
        /\ cpu[c].plv = 3 /\ cpu[c].ie
        /\ cpu[c].regs[3] = earg[c].ctx.regs[3]

(***************************************************************************)
(* C23: when switch_to(current, next) has run, current holds the core's    *)
(* return address, stack pointer and ten static registers as they were at  *)
(* the call (and, with TLS, the thread pointer), the core holds the same   *)
(* registers (and thread pointer) of next and continues at next's return   *)
(* address on next's stack; next and current's pgdl field are unchanged.   *)
(***************************************************************************)
SwitchDone == spc = "run" /\ sarg.prev # 0

C23_SwitchToFrameEffect ==
    SwitchDone =>
        LET prev == sarg.prev
            next == sarg.next
        IN  /\ tctx[prev].ra = sarg.hw0.ra
            /\ tctx[prev].sp = sarg.hw0.sp
            /\ \A i \in 0..9 : tctx[prev].s[i] = sarg.hw0.s[i]
            /\ tls => tctx[prev].tp = sarg.hw0.tp
            /\ hw.ra = sarg.tctx0[next].ra
            /\ hw.sp = sarg.tctx0[next].sp
            /\ \A i \in 0..9 : hw.s[i] = sarg.tctx0[next].s[i]
            /\ tls => hw.tp = sarg.tctx0[next].tp
            /\ hw.pc = sarg.tctx0[next].ra
            /\ cur = next
            /\ tctx[next] = sarg.tctx0[next]
            /\ tctx[prev].pgdl = sarg.tctx0[prev].pgdl

\* Task 1 is switched out a second time, from another place than the
\* first, to a task that has run before.
C23_Witness ==
    /\ SwitchDone
    /\ sarg.prev = 1
    /\ sarg.tctx0[1].ra # TaskContextInit(1).ra
    /\ tctx[1].ra # sarg.tctx0[1].ra
    /\ sarg.tctx0[sarg.next] # TaskContextInit(sarg.next)
    /\ hw.sp = tctx[sarg.next].sp

(***************************************************************************)
(* C24: during switch_to(current, next) the page-table-root register is    *)
(* written, each time with a full TLB flush, exactly when current.pgdl and *)
(* next.pgdl differ, then with next.pgdl and before the registers are      *)
(* switched; when the fields are equal the register and the TLB are left   *)
(* alone.                                                                  *)
(***************************************************************************)
C24_PgdlWrittenIffDifferent ==
    (sarg.prev # 0 /\ spc \in {"context_switch", "run"}) =>
        LET p == sarg.tctx0[sarg.prev].pgdl
            n == sarg.tctx0[sarg.next].pgdl
            done == IF spc = "run" THEN <<[ev |-> "context_switch", val |-> 0]>>
                    ELSE <<>>
        IN  IF p # n
            THEN /\ sarg.log = <<[ev |-> "set_pgdl", val |-> n],
                                 [ev |-> "flush_tlb", val |-> 0]>> \o done
                 /\ hw.pgdl = n
            ELSE /\ sarg.log = done
                 /\ hw.pgdl = sarg.hw0.pgdl

\* A switch between two tasks with the same root field has run while the
\* register held another root, and left it alone.
C24_Witness ==
    /\ SwitchDone
    /\ sarg.tctx0[sarg.prev].pgdl = sarg.tctx0[sarg.next].pgdl
    /\ hw.pgdl # tctx[cur].pgdl
    /\ Len(sarg.log) = 1

\* A switch between tasks of different address spaces has written the
\* register.
C24_WitnessWritten ==
    /\ SwitchDone
    /\ Len(sarg.log) = 3
    /\ hw.pgdl # sarg.hw0.pgdl

(***************************************************************************)
(* What the claims about ELFParser speak of: new has returned; the number  *)
(* of Interp program headers; the bias argument, 0 when None; equality of  *)
(* two addresses as usize values.                                          *)
(***************************************************************************)
Parsed == parser # NoParser

Interps == Cardinality({i \in DOMAIN elf_in.elf.phs : elf_in.elf.phs[i].type = "Interp"})

BiasArg == IF elf_in.bias.some THEN elf_in.bias.val ELSE 0

SameUsize(a, b) == (a - b) % 2^16 = 0

LoadBelowUspaceBase ==
    \E i \in DOMAIN elf_in.elf.phs :
        /\ elf_in.elf.phs[i].type = "Load"
        /\ elf_in.elf.phs[i].virtual_addr < elf_in.uspace_base

(***************************************************************************)
(* C25 as stated: for a SharedObject that ELFParser::new accepts, base() is*)
(* interp_base plus the bias (0 when None) when the image has no Interp    *)
(* program header, and 0 when it has exactly one, whatever the bias.       *)
(***************************************************************************)
C25_SharedObjectBaseZeroWithInterp ==
    (Parsed /\ parser.ok /\ elf_in.elf.type = "SharedObject") =>
        /\ Interps = 0 => SameUsize(parser.base, elf_in.interp_base + BiasArg)
        /\ Interps = 1 => parser.base = 0

(***************************************************************************)
(* C25, amended: for a SharedObject that ELFParser::new accepts, base() is *)
(* interp_base plus the bias (0 when None) when the image has no Interp    *)
(* program header, and the bias (0 when None) when it has exactly one, in  *)
(* usize arithmetic.                                                       *)
(***************************************************************************)
C25_SharedObjectBase ==
    (Parsed /\ parser.ok /\ elf_in.elf.type = "SharedObject") =>
        /\ parser.base \in 0..(2^16 - 1)
        /\ Interps = 0 => SameUsize(parser.base, elf_in.interp_base + BiasArg)
        /\ Interps = 1 => SameUsize(parser.base, BiasArg)

\* A shared object with one interpreter was parsed with a bias and a
\* non-zero interp_base.
C25_Witness ==
    /\ Parsed /\ parser.ok
    /\ elf_in.elf.type = "SharedObject"
    /\ Interps = 1
    /\ elf_in.interp_base # 0
    /\ BiasArg = 4096
    /\ parser.base = 4096

(***************************************************************************)
(* C26: for every ELF of type Executable that ELFParser::new accepts,      *)
(* base() is 0 whatever interp_base and bias are, so entry(), phdr() and   *)
(* every ph_load() virtual address are the values stored in the file.  An  *)
(* executable with an Interp program header gets the bias as its base.     *)
(***************************************************************************)
C26_ExecutableBaseZero ==
    (Parsed /\ parser.ok /\ elf_in.elf.type = "Executable") =>
        /\ parser.base = 0
        /\ (elf_out.called /\ ~elf_out.panicked) =>
              /\ elf_out.base = 0
              /\ elf_out.entry = elf_in.elf.entry_point
              /\ elf_out.phdr = elf_in.elf.ph_offset
              /\ \A k \in DOMAIN elf_out.ph_load :
                    \E i \in DOMAIN elf_in.elf.phs :
                        /\ elf_in.elf.phs[i].type = "Load"
                        /\ elf_out.ph_load[k].vaddr = elf_in.elf.phs[i].virtual_addr

(***************************************************************************)
(* C27: ELFParser::new returns an error for every image with more than one *)
(* Interp program header, whatever its type and the other arguments.  An   *)
(* Executable is accepted without its Interp headers being counted.        *)
(***************************************************************************)
C27_MultipleInterpretersRejected ==
    (Parsed /\ Interps > 1) => ~parser.ok

(***************************************************************************)
(* C28: for an ELF of type Executable with no Interp program header,       *)
(* ELFParser::new returns an error when some Load program header has a     *)
(* virtual address below uspace_base; when every Load header is at or above*)
(* uspace_base the image is not rejected for its base address.             *)
(***************************************************************************)
C28_NonPieBelowUspaceBaseRejected ==
    (Parsed /\ elf_in.elf.type = "Executable" /\ Interps = 0) =>
        /\ LoadBelowUspaceBase => ~parser.ok
        /\ ~LoadBelowUspaceBase =>
              /\ ~parser.ok => parser.err # "Invalid ELF base address"
              /\ elf_in.elf.magic = <<127, 69, 76, 70>> => parser.ok

\* An executable whose lowest load segment starts exactly at a non-zero
\* uspace_base was accepted.
C28_Witness ==
    /\ Parsed /\ parser.ok
    /\ elf_in.elf.type = "Executable" /\ Interps = 0
    /\ elf_in.uspace_base # 0
    /\ \E i \in DOMAIN elf_in.elf.phs :
         /\ elf_in.elf.phs[i].type = "Load"
         /\ elf_in.elf.phs[i].virtual_addr = elf_in.uspace_base

(***************************************************************************)
(* C29: ELFParser::new returns an error value, not a parser, when the      *)
(* magic is not 0x7f 'E' 'L' 'F' and when the ELF type is neither          *)
(* Executable nor SharedObject, for every interp_base, bias and            *)
(* uspace_base.                                                            *)
(***************************************************************************)
C29_MalformedInputIsError ==
    (/\ Parsed
     /\ \/ elf_in.elf.magic # <<127, 69, 76, 70>>
        \/ elf_in.elf.type \notin {"Executable", "SharedObject"}) =>
        /\ ~parser.ok
        /\ parser.err \in {"invalid elf!", "Invalid ELF base address",
                           "Unsupported ELF type"}

\* A well-formed image of an unsupported type, with no load segment below
\* uspace_base, reached elf_base_addr and was refused there.
C29_Witness ==
    /\ Parsed /\ ~parser.ok
    /\ elf_in.elf.magic = <<127, 69, 76, 70>>
    /\ elf_in.elf.type = "Core"
    /\ ~LoadBelowUspaceBase
    /\ Len(elf_in.elf.phs) > 0
    /\ parser.err = "Unsupported ELF type"

(***************************************************************************)
(* C30: ph_load() returns one entry per program header of type Load, in    *)
(* table order, with vaddr = the header's virtual address + base, offset,  *)
(* filesz and memsz copied, and flags = USER plus READ, WRITE, EXECUTE as  *)
(* set in the header; other program headers contribute no entry.           *)
(***************************************************************************)
\* The index in the table of the k-th Load program header.
LoadIndex(k) ==
    CHOOSE i \in DOMAIN elf_in.elf.phs :
        /\ elf_in.elf.phs[i].type = "Load"
        /\ Cardinality({j \in 1..i : elf_in.elf.phs[j].type = "Load"}) = k

C30_PhLoadOnePerLoadHeader ==
    (elf_out.called /\ ~elf_out.panicked) =>
        LET segs == elf_out.ph_load
            phs == elf_in.elf.phs
        IN  /\ DOMAIN segs = 1..Cardinality({i \in DOMAIN phs : phs[i].type = "Load"})
            /\ \A k \in DOMAIN segs :
                 LET ph == phs[LoadIndex(k)]
                 IN  /\ SameUsize(segs[k].vaddr, ph.virtual_addr + parser.base)
                     /\ segs[k].vaddr \in 0..(2^16 - 1)
                     /\ segs[k].offset = ph.offset
                     /\ segs[k].filesz = ph.file_size
                     /\ segs[k].memsz = ph.mem_size
                     /\ "USER" \in segs[k].flags
                     /\ "READ" \in segs[k].flags <=> "R" \in ph.flags
                     /\ "WRITE" \in segs[k].flags <=> "W" \in ph.flags
                     /\ "EXECUTE" \in segs[k].flags <=> "X" \in ph.flags
                     /\ segs[k].flags \subseteq {"USER", "READ", "WRITE", "EXECUTE"}

\* A relocated image whose table has the higher load segment first, then
\* another header, then the lower load segment: two entries, not sorted.
C30_Witness ==
    /\ elf_out.called /\ ~elf_out.panicked
    /\ parser.base = 8192
    /\ Len(elf_in.elf.phs) = 3
    /\ elf_in.elf.phs[2].type # "Load"
    /\ Len(elf_out.ph_load) = 2
    /\ elf_out.ph_load[1].vaddr > elf_out.ph_load[2].vaddr

(***************************************************************************)
(* C31: auxv_vector(pagesz) returns 17 entries in one fixed order; the last*)
(* is the only NULL entry; there is exactly one RANDOM and one EXECFN      *)
(* entry; PHDR, PHENT, PHNUM, PAGESZ, BASE and ENTRY hold ph_offset + base,*)
(* the header's entry size, the header count, pagesz, base and             *)
(* entry_point + base.                                                     *)
(***************************************************************************)
AuxvValuesOf(t) ==
    {elf_out.auxv[i].auxv_val : i \in {j \in DOMAIN elf_out.auxv : elf_out.auxv[j].auxv_type = t}}

AuxvCount(t) == Cardinality({j \in DOMAIN elf_out.auxv : elf_out.auxv[j].auxv_type = t})

C31_AuxvVectorLayout ==
    (elf_out.called /\ ~elf_out.panicked) =>
        /\ [i \in DOMAIN elf_out.auxv |-> elf_out.auxv[i].auxv_type] =
              <<3, 4, 5, 6, 7, 8, 9, 16, 17, 15, 11, 12, 13, 14, 25, 31, 0>>
        /\ Len(elf_out.auxv) = 17
        /\ elf_out.auxv[17].auxv_type = 0 /\ AuxvCount(0) = 1
        /\ AuxvCount(25) = 1 /\ AuxvCount(31) = 1
        /\ \A v \in AuxvValuesOf(3) : SameUsize(v, elf_in.elf.ph_offset + parser.base)
        /\ AuxvValuesOf(4) = {elf_in.elf.ph_entry_size}
        /\ AuxvValuesOf(5) = {Len(elf_in.elf.phs)}
        /\ AuxvValuesOf(6) = {elf_out.pagesz}
        /\ AuxvValuesOf(7) = {parser.base}
        /\ \A v \in AuxvValuesOf(9) : SameUsize(v, elf_in.elf.entry_point + parser.base)
        /\ \A i \in DOMAIN elf_out.auxv : elf_out.auxv[i].auxv_val \in 0..(2^16 - 1)

\* The vector of a relocated image with three program headers, for the
\* larger page size.
C31_Witness ==
    /\ elf_out.called /\ ~elf_out.panicked
    /\ parser.base = 8192
    /\ elf_out.pagesz = 16384
    /\ Len(elf_in.elf.phs) = 3
    /\ elf_out.auxv[1] = AuxvEntry(3, 8192 + 64)
    /\ elf_out.auxv[7] = AuxvEntry(9, 8192 + 4100)

(***************************************************************************)
(* What the claims about the finished stack speak of: the top of the stack,*)
(* the word index of the first auxv entry in the buffer, and the bytes of  *)
(* the buffer from an address on.                                          *)
(***************************************************************************)
StackTop == stack_base + stack_size

AuxvWord0 == Len(args) + Len(envs) + 3

BytesAt(addr, n) == [k \in 1..n |-> data[addr - FinalSp + k]]

(***************************************************************************)
(* C32: after app_stack_region with a non-empty args list every RANDOM     *)
(* entry of auxv holds stack_top - 16, every EXECFN entry holds the argv[0]*)
(* pointer written into the buffer, and every other entry keeps its type,  *)
(* value and position, in the caller's slice and in the buffer's copy.     *)
(***************************************************************************)
C32_AuxvBackPatched ==
    (upc = "done" /\ args # <<>>) =>
        /\ Len(auxv) = Len(auxv_in)
        /\ \A k \in 1..Len(auxv_in) :
              /\ auxv[k].auxv_type = auxv_in[k].auxv_type
              /\ W(AuxvWord0 + 2 * (k - 1)) = auxv_in[k].auxv_type
              /\ W(AuxvWord0 + 2 * (k - 1) + 1) = auxv[k].auxv_val
              /\ CASE auxv_in[k].auxv_type = 25 -> auxv[k].auxv_val = StackTop - 16
                   [] auxv_in[k].auxv_type = 31 -> auxv[k].auxv_val = W(1)
                   [] OTHER -> auxv[k].auxv_val = auxv_in[k].auxv_val

\* Two RANDOM entries and one EXECFN entry that held other values were
\* patched, with two arguments on the stack.
C32_Witness ==
    /\ upc = "done"
    /\ Len(args) = 2
    /\ Len(auxv_in) = 4
    /\ auxv_in[1] = AuxvEntry(25, 7)
    /\ auxv[1].auxv_val = auxv[3].auxv_val
    /\ auxv[2].auxv_val = W(1)
    /\ auxv[2].auxv_val # auxv[1].auxv_val

(***************************************************************************)
(* C33: for every stack top, args and envs, the padding of sp mod 16 bytes *)
(* pushed after the seed, the strings and the 8 padding bytes makes the    *)
(* stack pointer a multiple of 16 where the auxiliary vectors are pushed;  *)
(* the assertion of init_stack never fails.                                *)
(***************************************************************************)
C33_AlignedBeforeAuxv ==
    /\ upc # "panic_assert"
    /\ upc \in {"patch", "auxv"} => sp % 16 = 0

\* An unaligned stack top with strings of odd total length: padding was
\* needed and the auxiliary vectors are about to be pushed.
C33_Witness ==
    /\ upc = "auxv"
    /\ StackTop % 16 # 0
    /\ Len(args) = 2 /\ Len(envs) = 1

(***************************************************************************)
(* C37: after every push the buffer is as long as stack_top - sp and the   *)
(* bytes already pushed keep their addresses; in the final buffer every    *)
(* argv[i] and envp[j] pointer lies in [final sp, stack_top) and points at *)
(* the i-th argument (j-th environment) string followed by a NUL byte; the *)
(* environment strings lie above all argument strings and below the seed.  *)
(***************************************************************************)
BufferTracksSp == upc \notin {"call"} => Len(data) = StackTop - sp

PushPrepends ==
    (upc # "call" /\ data' # data) =>
        /\ Len(data') = Len(data) + (sp - sp')
        /\ \A i \in 1..Len(data) : data'[Len(data') - Len(data) + i] = data[i]

PointersReachStrings ==
    upc = "done" =>
        /\ \A i \in 1..Len(args) :
              LET ptr == W(i) IN
              /\ ptr >= FinalSp /\ ptr + Len(args[i]) < StackTop
              /\ BytesAt(ptr, Len(args[i]) + 1) = args[i] \o <<0>>
        /\ \A j \in 1..Len(envs) :
              LET ptr == W(Len(args) + 1 + j) IN
              /\ ptr >= FinalSp /\ ptr + Len(envs[j]) < StackTop - 16
              /\ BytesAt(ptr, Len(envs[j]) + 1) = envs[j] \o <<0>>
              /\ \A i \in 1..Len(args) : W(i) + Len(args[i]) < ptr
        /\ BytesAt(StackTop - 16, 16) = RandomSeed

C37_BufferMirrorsStack ==
    [](BufferTracksSp /\ PointersReachStrings) /\ [][PushPrepends]_vars

\* Two arguments and two environment strings of different lengths.
C37_Witness ==
    /\ upc = "done"
    /\ Len(args) = 2 /\ Len(envs) = 2
    /\ Len(args[1]) = 2 /\ Len(args[2]) = 1
    /\ Len(envs[1]) = 1 /\ Len(envs[2]) = 2
    /\ W(2) < W(1)

(***************************************************************************)
(* C38: with an empty args list, app_stack_region fails on the index       *)
(* argv_slice[0] and returns no buffer when auxv has an EXECFN entry; when *)
(* auxv has none it returns a buffer whose argc word is 0, followed        *)
(* directly by the null word that ends argv.                               *)
(***************************************************************************)
C38_ExecfnNeedsArgv0 ==
    args = <<>> =>
        /\ HasType(auxv_in, 31) =>
              upc \in {"call", "seed", "envs", "args", "align", "patch", "panic_index"}
        /\ upc = "panic_index" => HasType(auxv_in, 31)
        /\ upc = "done" => W(0) = 0 /\ W(1) = 0

\* The call with no argument and an EXECFN entry has failed.
C38_Witness ==
    /\ args = <<>>
    /\ Len(envs) = 1
    /\ upc = "panic_index"

(***************************************************************************)
(* C35: starting with the hardware page-table root equal to the running   *)
(* task's pgdl field, after every switch_to in any sequence of switch_to   *)
(* and set_page_table_root calls, set_page_table_root of the running       *)
(* task's context included, the hardware root is the pgdl field of the     *)
(* task that is now running.                                               *)
(***************************************************************************)
C35_HardwareRootFollowsTask == SwitchDone => hw.pgdl = tctx[cur].pgdl

(***************************************************************************)
(* C36: a task that called switch_to and is switched back to, directly or  *)
(* after a chain of other switches, resumes at the return of its own call  *)
(* with the stack pointer, the ten static registers and (with TLS) the     *)
(* thread pointer it had at that call; a switch between two other tasks    *)
(* never modifies its saved context.                                       *)
(***************************************************************************)
ResumesWhereItLeft ==
    (SwitchDone /\ sarg.away[cur] # <<>>) =>
        LET a == sarg.away[cur] IN
        /\ hw.pc = a.ra
        /\ hw.ra = a.ra
        /\ hw.sp = a.sp
        /\ \A i \in 0..9 : hw.s[i] = a.s[i]
        /\ tls => hw.tp = a.tp

OthersUntouched ==
    \A a \in Tasks :
        (spc \in {"tls", "pgdl", "context_switch"} /\ a # sarg.prev /\ a # sarg.next)
            => tctx'[a] = tctx[a]

C36_SwitchBackResumes == []ResumesWhereItLeft /\ [][OthersUntouched]_vars

\* Task 1 left from its second place, tasks 2 and 3 have switched among
\* themselves, and task 1 is running again.
C36_Witness ==
    /\ SwitchDone
    /\ cur = 1
    /\ sarg.prev = 3
    /\ sarg.away[1] # <<>> /\ sarg.away[2] # <<>>
    /\ hw.sp = TaskRegs(1, 1).sp
    /\ hw.s[9] = TaskRegs(1, 1).s[9]

(***************************************************************************)
(* C34: on the primary and on every secondary processor the boot sequence  *)
(* installs the page-table root and the TLB/page-walk configuration before *)
(* it sets the paging-enable bit, keeps the interrupt-enable bit clear     *)
(* from its first instruction to the jump to the kernel entry, and passes  *)
(* the processor's own CPU id as the entry argument; the secondary         *)
(* sequence takes its stack from the published boot-stack-top and never    *)
(* writes the boot page tables.                                            *)
(***************************************************************************)
PagingAfterSetup ==
    \A c \in BootCpus :
        bcore[c].crmd.pg =>
            /\ bcore[c].pgdh = virt_to_phys(BootImage.boot_pt_l0)
            /\ bcore[c].tlb.ps = 12
            /\ bcore[c].tlb.pte_width = 8
            /\ bcore[c].tlb.dir3_base = 39
            /\ bcore[c].tlb.tlbrentry = virt_to_phys(BootImage.handle_tlb_refill)
            /\ bmem.pt.l0_0 = virt_to_phys(BootImage.boot_pt_l1)

IrqsOffDuringBoot == \A c \in BootCpus : bcore[c].pc # "off" => ~bcore[c].crmd.ie

EntryGetsCpuId ==
    \A c \in BootCpus :
        bcore[c].pc = "entry" =>
            /\ bcore[c].a0 = c
            /\ bcore[c].crmd.pg
            /\ bcore[c].target = IF c = 0 THEN BootImage.rust_entry
                                 ELSE BootImage.rust_entry_secondary

SecondaryStackPublished ==
    \A c \in BootCpus \ {0} :
        bcore[c].pc \notin {"off", "dmw", "stack"} =>
            /\ bcore[c].sp = bcore[c].published
            /\ bcore[c].sp \in SecondaryStackTops(c)

SecondaryLeavesTables ==
    \A c \in BootCpus \ {0} : bcore'[c] # bcore[c] => bmem'.pt = bmem.pt

C34_BootSequenceOrder ==
    /\ [](PagingAfterSetup /\ IrqsOffDuringBoot /\ EntryGetsCpuId /\ SecondaryStackPublished)
    /\ [][SecondaryLeavesTables]_vars

\* The primary and a secondary processor have both reached their entry,
\* from registers that held other values before.
C34_Witness ==
    /\ bcore[0].pc = "entry"
    /\ bcore[1].pc = "entry"
    /\ bcore[1].a0 = 1
    /\ bcore[1].published = bmem.smp_boot_stack_top
    /\ bcore[1].prmd = 0
    /\ bmem.pt.l1_2.flags = HUGE_FLAGS

(***************************************************************************)
(* C39: FlattenObjects behaves as a partial map from the IDs 0..CAP-1 to   *)
(* objects under every sequence of add, add_at, add_or_replace_at and      *)
(* remove: add stores at the smallest unassigned ID and returns Err(value) *)
(* without change when all IDs are assigned; add_at fails without change   *)
(* when the ID is >= CAP or assigned; add_or_replace_at returns the old    *)
(* object and keeps the count when it replaces; remove returns the stored  *)
(* object and frees the ID; get returns the latest stored object exactly   *)
(* when the ID is assigned; count is the number of assigned IDs, <= CAP.   *)
(***************************************************************************)
\* The partial map a container stands for.
MapOf(f) == [i \in {j \in 0..(FlatCap - 1) : j \in f.id_bitmap} |-> f.objects[i]]

\* The map m with id bound to v.
MapWith(m, id, v) == [i \in DOMAIN m \cup {id} |-> IF i = id THEN v ELSE m[i]]

\* The map m without id.
MapWithout(m, id) == [i \in DOMAIN m \ {id} |-> m[i]]

C39_FlattenObjectsIsPartialMap ==
    LET b == MapOf(fo_op.before)
        a == MapOf(fo)
        id == fo_op.id
        v == fo_op.val
        r == fo_op.ret
        free == (0..(FlatCap - 1)) \ DOMAIN b
    IN  /\ fo.count = Cardinality(DOMAIN a)
        /\ fo.count <= FlatCap
        /\ fo.id_bitmap \subseteq 0..(FlatCap - 1)
        /\ fo_op.op = "add" =>
              IF free = {}
              THEN r = Ret("Err", 0, v) /\ fo = fo_op.before
              ELSE \E n \in free :
                      /\ \A k \in free : n <= k
                      /\ r = Ret("Ok", n, "none")
                      /\ a = MapWith(b, n, v)
        /\ fo_op.op = "add_at" =>
              IF id >= FlatCap \/ id \in DOMAIN b
              THEN r = Ret("Err", 0, v) /\ fo = fo_op.before
              ELSE r = Ret("Ok", id, "none") /\ a = MapWith(b, id, v)
        /\ fo_op.op = "add_or_replace_at" =>
              /\ id \in DOMAIN b =>
                    /\ r = Ret("ErrSome", 0, b[id])
                    /\ fo.count = fo_op.before.count
                    /\ a = MapWith(b, id, v)
              /\ id \in free => r = Ret("Ok", id, "none") /\ a = MapWith(b, id, v)
              /\ id >= FlatCap => a = b
        /\ fo_op.op = "remove" =>
              IF id \in DOMAIN b
              THEN r = Ret("Some", 0, b[id]) /\ a = MapWithout(b, id)
              ELSE r = Ret("None", 0, "none") /\ a = b
        /\ fo_op.op = "get" =>
              /\ r = IF id \in DOMAIN b THEN Ret("Some", 0, b[id]) ELSE Ret("None", 0, "none")
              /\ fo = fo_op.before

\* With every ID assigned, ID 0 was removed and add has stored another
\* object at it again.
C39_Witness ==
    /\ fo_op.op = "add"
    /\ fo_op.ret = Ret("Ok", 0, "none")
    /\ fo_op.before.count = FlatCap - 1
    /\ fo_op.before.objects[0] # "uninit"
    /\ fo_op.before.objects[0] # fo.objects[0]
    /\ fo.count = FlatCap

(***************************************************************************)
(* C40: iterating a CpuMask with any interleaving of next() and            *)
(* next_back() yields every set bit index exactly once, next() ascending   *)
(* from the front and next_back() descending from the back, never the same *)
(* index twice; once the two ends have met both calls return None forever. *)
(***************************************************************************)
\* The positions of the log where an index was yielded.
Yields == {k \in 1..Len(iter_log) : iter_log[k].ret.some}

NeverTwice ==
    \A k, l \in Yields : k # l => iter_log[k].ret.val # iter_log[l].ret.val

InOrder ==
    \A k, l \in Yields :
        (k < l /\ iter_log[k].end = iter_log[l].end) =>
            IF iter_log[k].end = "front" THEN iter_log[k].ret.val < iter_log[l].ret.val
            ELSE iter_log[k].ret.val > iter_log[l].ret.val

OnlySetBits == \A k \in Yields : iter_log[k].ret.val \in mask

\* After the first None every set bit has been yielded and nothing follows.
NoneIsFinal ==
    \A k \in 1..Len(iter_log) :
        ~iter_log[k].ret.some =>
            /\ \A l \in k..Len(iter_log) : ~iter_log[l].ret.some
            /\ mask = {iter_log[l].ret.val : l \in Yields}

C40_EachSetBitOnce == NeverTwice /\ InOrder /\ OnlySetBits /\ NoneIsFinal

====
